---- MODULE Spec2Model ----
(***************************************************************************)
(* Verification model of the deal engine (deal_engine/core).               *)
(*                                                                         *)
(*   Spec      the review state machine driven by one caller               *)
(*             (core/review.py, DealReview)                                *)
(*   SpecConc  two reviewers calling the same DealReview from two threads  *)
(*   SpecEval  one evaluation of a listing against a mandate: the          *)
(*             rejection rules, scoring, conviction and the synthesized    *)
(*             recommendation with the optional planning assessment        *)
(*             (core/rejection.py, scoring.py, conviction.py,              *)
(*             recommendation.py, planning/)                               *)
(*   SpecFilter  one call of the hard filters on a listing or a batch     *)
(*             (core/filtering.py)                                         *)
(*   SpecScore one call of score_listing, with or without a weights        *)
(*             override, or of assess_conviction on the listing's score    *)
(*             (core/scoring.py, core/conviction.py)                       *)
(*   SpecPlan  one call of a planning component: assess_feasibility,       *)
(*             calculate_precedent_score or calculate_planning_score       *)
(*             (planning/feasibility.py, precedent.py, score.py)           *)
(*   SpecAssess  one call of get_planning_assessment (planning/score.py)  *)
(*   SpecQueue a ReviewQueue holding reviews that are added, removed and   *)
(*             moved through their states (core/review.py, ReviewQueue)    *)
(*   SpecBatch one call of generate_recommendations on two listings        *)
(*             (core/recommendation.py)                                    *)
(*   SpecLocation  one call of a location rule: filter_by_location,       *)
(*             Mandate.accepts_location or check_location_outside_target   *)
(*             (core/filtering.py, mandate.py, rejection.py)               *)
(***************************************************************************)
EXTENDS Integers, Sequences, FiniteSets, TLC

VARIABLES
    review,      \* the DealReview object: state, updated_at, decision_notes, decline_reasons, history;
                 \* SpecQueue: the DealReview objects, by object
    clock,       \* the last value datetime.now() returned
    lastCall,    \* Spec, SpecQueue: the last completed call on a review or the queue and its outcome
    queue,       \* ReviewQueue._reviews: the review ids the queue holds;
                 \* SpecQueue: its entries (review_id, review) in insertion order
    threads,     \* SpecConc: position and locals of each reviewer's running call
    listing,     \* SpecEval, SpecFilter, SpecScore, SpecBatch, SpecLocation: the Listing under evaluation
    mandate,     \* the Mandate it is evaluated against
    result       \* the last evaluation call, its arguments and what it returned

vars == <<review, clock, lastCall, queue, threads, listing, mandate, result>>

reviewVars == <<review, clock, lastCall, queue, threads>>

evalVars == <<listing, mandate, result>>

(***************************************************************************)
(* Bounds                                                                  *)
(***************************************************************************)
MaxHistory == 4
MaxCalls == 2

Actors == {"alice", "bob"}
Notes == {"", "note"}
Reasons == {<<>>, <<"too expensive">>}

(***************************************************************************)
(* core/review.py                                                          *)
(***************************************************************************)
ReviewState == {"new", "reviewing", "accepted", "declined"}

ReviewAction == {"start_review", "accept", "decline", "reset"}

\* mutant: the ACCEPTED row also lets a decline through
VALID_TRANSITIONS_DeclineAfterAccept ==
    [s \in ReviewState |->
        CASE s = "new"       -> ("start_review" :> "reviewing")
          [] s = "reviewing" -> ("accept" :> "accepted" @@ "decline" :> "declined" @@ "reset" :> "new")
          [] s = "accepted"  -> ("reset" :> "new" @@ "decline" :> "declined")
          [] s = "declined"  -> ("reset" :> "new")]

VALID_TRANSITIONS ==
    [s \in ReviewState |->
        CASE s = "new"       -> ("start_review" :> "reviewing")
          [] s = "reviewing" -> ("accept" :> "accepted" @@ "decline" :> "declined" @@ "reset" :> "new")
          [] s = "accepted"  -> ("reset" :> "new")
          [] s = "declined"  -> ("reset" :> "new")]

\* InvalidTransitionError.__init__: the exception keeps the state and the action
InvalidTransitionError(current_state, action) ==
    [type |-> "InvalidTransitionError", current_state |-> current_state, action |-> action]

NoError == [type |-> "none", current_state |-> "none", action |-> "none"]

StateTransition(from_state, to_state, action, timestamp, actor, notes) ==
    [from_state |-> from_state, to_state |-> to_state, action |-> action,
     timestamp |-> timestamp, actor |-> actor, notes |-> notes]

\* DealReview as create_review builds it: NEW, empty history, no decision
DealReview(created) ==
    [state |-> "new", updated_at |-> created, decision_notes |-> "",
     decline_reasons |-> <<>>, history |-> <<>>]

can_transition(self, action) ==
    action \in DOMAIN VALID_TRANSITIONS[self.state]

\* mutant: the state is updated before the audit record is built, so the
\* record's from_state is the new state
transition_RecordAfterUpdate(self, action, actor, notes, now) ==
    IF action \notin DOMAIN VALID_TRANSITIONS[self.state]
    THEN [self |-> self, raised |-> InvalidTransitionError(self.state, action)]
    ELSE LET new_state == VALID_TRANSITIONS[self.state][action]
             rec == StateTransition(new_state, new_state, action, now, actor, notes)
         IN [self |-> [self EXCEPT !.history = Append(@, rec),
                                   !.state = new_state,
                                   !.updated_at = now],
             raised |-> NoError]

\* the record is appended and the state left as it was
transition_StateNotUpdated(self, action, actor, notes, now) ==
    IF action \notin DOMAIN VALID_TRANSITIONS[self.state]
    THEN [self |-> self, raised |-> InvalidTransitionError(self.state, action)]
    ELSE LET new_state == VALID_TRANSITIONS[self.state][action]
             rec == StateTransition(self.state, new_state, action, now, actor, notes)
         IN [self |-> [self EXCEPT !.history = Append(@, rec), !.updated_at = now],
             raised |-> NoError]

\* DealReview.transition: the review after the call, and what it raised
transition(self, action, actor, notes, now) ==
    IF ~can_transition(self, action)
    THEN [self |-> self, raised |-> InvalidTransitionError(self.state, action)]
    ELSE LET new_state == VALID_TRANSITIONS[self.state][action]
             rec == StateTransition(self.state, new_state, action, now, actor, notes)
         IN [self |-> [self EXCEPT !.history = Append(@, rec),
                                   !.state = new_state,
                                   !.updated_at = now],
             raised |-> NoError]

start_review(self, actor, notes, now) ==
    transition(self, "start_review", actor, notes, now)

accept(self, actor, notes, now) ==
    transition([self EXCEPT !.decision_notes = notes], "accept", actor, notes, now)

decline(self, actor, reasons, notes, now) ==
    transition([self EXCEPT !.decline_reasons = reasons, !.decision_notes = notes],
               "decline", actor, notes, now)

reset(self, actor, notes, now) ==
    transition(self, "reset", actor, notes, now)

is_pending(self) == self.state \in {"new", "reviewing"}

is_decided(self) == self.state \in {"accepted", "declined"}

(***************************************************************************)
(* Reviewer threads (SpecConc). A thread is idle or inside one DealReview  *)
(* method; pc names the next read or write of the shared review it makes.  *)
(***************************************************************************)
Threads == {"t1", "t2"}

\* the reviewer each thread acts for, and the notes that reviewer writes
ActorOf(t) == IF t = "t1" THEN "alice" ELSE "bob"

NotesOf(t) == IF t = "t1" THEN "note" ELSE ""

ReasonsOf(t) == IF t = "t1" THEN <<"too expensive">> ELSE <<>>

\* action, began, overlapped and raised describe the thread's running call, or
\* its last call once pc is back to "idle"
IdleThread ==
    [pc |-> "idle", action |-> "none", began |-> "none", overlapped |-> FALSE,
     new_state |-> "none", now |-> 0, from_state |-> "none",
     raised |-> NoError, calls |-> 0]

REVIEW_ID == "REV-1"

(***************************************************************************)
(* Spec: one caller, every call runs to completion                         *)
(***************************************************************************)
\* no listing is being evaluated while the review specifications run
NoEvaluation == [op |-> "none"]

NoCall ==
    [action |-> "none", actor |-> "none", notes |-> "", reasons |-> <<>>, raised |-> NoError]

Init ==
    /\ review = DealReview(0)
    /\ clock = 0
    /\ lastCall = NoCall
    /\ queue = {}
    /\ threads = [t \in Threads |-> IdleThread]
    /\ listing = NoEvaluation
    /\ mandate = NoEvaluation
    /\ result = NoEvaluation

\* the caller sees the outcome r of a call; datetime.now() is read only when
\* the transition executes
Complete(r, action, actor, notes, reasons, now) ==
    /\ (r.raised = NoError) => Len(review.history) < MaxHistory
    /\ review' = r.self
    /\ clock' = IF r.raised = NoError THEN now ELSE clock
    /\ lastCall' = [action |-> action, actor |-> actor, notes |-> notes,
                    reasons |-> reasons, raised |-> r.raised]
    /\ UNCHANGED <<queue, threads>>
    /\ UNCHANGED evalVars

\* datetime.now(); the model takes successive readings to be distinct
Now == {clock + 1}

StartReview ==
    \E actor \in Actors, notes \in Notes, now \in Now :
        Complete(start_review(review, actor, notes, now), "start_review", actor, notes, <<>>, now)

Accept ==
    \E actor \in Actors, notes \in Notes, now \in Now :
        Complete(accept(review, actor, notes, now), "accept", actor, notes, <<>>, now)

Decline ==
    \E actor \in Actors, reasons \in Reasons, notes \in Notes, now \in Now :
        Complete(decline(review, actor, reasons, notes, now), "decline", actor, notes, reasons, now)

Reset ==
    \E actor \in Actors, notes \in Notes, now \in Now :
        Complete(reset(review, actor, notes, now), "reset", actor, notes, <<>>, now)

Next ==
    \/ StartReview
    \/ Accept
    \/ Decline
    \/ Reset

Spec == Init /\ [][Next]_vars

(***************************************************************************)
(* SpecConc: two reviewers call DealReview methods from two threads.       *)
(* review.py takes no lock, so the calls interleave between any two reads  *)
(* or writes of the review's fields.                                       *)
(***************************************************************************)
Other(t) == CHOOSE u \in Threads : u # t

InFlight(t) == threads[t].pc # "idle"

\* thread t calls the method for `action`; `first` is the method's first step
Call(t, action, first) ==
    /\ threads[t].pc = "idle"
    /\ threads[t].calls < MaxCalls
    /\ threads' = [u \in Threads |->
         IF u = t
         THEN [IdleThread EXCEPT !.pc = first, !.action = action,
                                 !.began = review.state,
                                 !.overlapped = InFlight(Other(t)),
                                 !.calls = threads[t].calls + 1]
         ELSE [threads[u] EXCEPT !.overlapped = @ \/ InFlight(u)]]
    /\ UNCHANGED <<review, clock, lastCall, queue>>
    /\ UNCHANGED evalVars

CallStartReview(t) == Call(t, "start_review", "check")

CallAccept(t) == Call(t, "accept", "set_notes")

CallDecline(t) == Call(t, "decline", "set_reasons")

CallReset(t) == Call(t, "reset", "check")

\* decline: self.decline_reasons = reasons
SetReasons(t) ==
    /\ threads[t].pc = "set_reasons"
    /\ review' = [review EXCEPT !.decline_reasons = ReasonsOf(t)]
    /\ threads' = [threads EXCEPT ![t].pc = "set_notes"]
    /\ UNCHANGED <<clock, lastCall, queue>>
    /\ UNCHANGED evalVars

\* accept, decline: self.decision_notes = notes
SetNotes(t) ==
    /\ threads[t].pc = "set_notes"
    /\ review' = [review EXCEPT !.decision_notes = NotesOf(t)]
    /\ threads' = [threads EXCEPT ![t].pc = "check"]
    /\ UNCHANGED <<clock, lastCall, queue>>
    /\ UNCHANGED evalVars

\* transition: if not self.can_transition(action)
Check(t) ==
    /\ threads[t].pc = "check"
    /\ threads' = [threads EXCEPT
         ![t].pc = IF can_transition(review, threads[t].action) THEN "lookup" ELSE "raise"]
    /\ UNCHANGED <<review, clock, lastCall, queue>>
    /\ UNCHANGED evalVars

\* transition: raise InvalidTransitionError(self.state, action)
Raise(t) ==
    /\ threads[t].pc = "raise"
    /\ threads' = [threads EXCEPT
         ![t].raised = InvalidTransitionError(review.state, threads[t].action),
         ![t].pc = "idle"]
    /\ UNCHANGED <<review, clock, lastCall, queue>>
    /\ UNCHANGED evalVars

\* transition: new_state = VALID_TRANSITIONS[self.state][action]; now = datetime.now()
\* (a KeyError when the state no longer has the action in its row)
Lookup(t) ==
    /\ threads[t].pc = "lookup"
    /\ IF threads[t].action \in DOMAIN VALID_TRANSITIONS[review.state]
       THEN /\ threads' = [threads EXCEPT
                 ![t].new_state = VALID_TRANSITIONS[review.state][threads[t].action],
                 ![t].now = clock + 1,
                 ![t].pc = "record"]
            /\ clock' = clock + 1
       ELSE /\ threads' = [threads EXCEPT
                 ![t].raised = [type |-> "KeyError", current_state |-> review.state,
                                action |-> threads[t].action],
                 ![t].pc = "idle"]
            /\ clock' = clock
    /\ UNCHANGED <<review, lastCall, queue>>
    /\ UNCHANGED evalVars

\* transition: StateTransition(from_state=self.state, ...)
Record(t) ==
    /\ threads[t].pc = "record"
    /\ threads' = [threads EXCEPT ![t].from_state = review.state, ![t].pc = "append"]
    /\ UNCHANGED <<review, clock, lastCall, queue>>
    /\ UNCHANGED evalVars

\* transition: self.history.append(transition)
AppendHistory(t) ==
    /\ threads[t].pc = "append"
    /\ review' = [review EXCEPT !.history =
         Append(@, StateTransition(threads[t].from_state, threads[t].new_state,
                                   threads[t].action, threads[t].now,
                                   ActorOf(t), NotesOf(t)))]
    /\ threads' = [threads EXCEPT ![t].pc = "set_state"]
    /\ UNCHANGED <<clock, lastCall, queue>>
    /\ UNCHANGED evalVars

\* transition: self.state = new_state
SetState(t) ==
    /\ threads[t].pc = "set_state"
    /\ review' = [review EXCEPT !.state = threads[t].new_state]
    /\ threads' = [threads EXCEPT ![t].pc = "set_updated_at"]
    /\ UNCHANGED <<clock, lastCall, queue>>
    /\ UNCHANGED evalVars

\* transition: self.updated_at = now; return self
SetUpdatedAt(t) ==
    /\ threads[t].pc = "set_updated_at"
    /\ review' = [review EXCEPT !.updated_at = threads[t].now]
    /\ threads' = [threads EXCEPT ![t].pc = "idle"]
    /\ UNCHANGED <<clock, lastCall, queue>>
    /\ UNCHANGED evalVars

\* ReviewQueue.add: self._reviews[review.review_id] = review
QueueAdd(t) ==
    /\ threads[t].pc = "idle"
    /\ queue' = queue \cup {REVIEW_ID}
    /\ UNCHANGED <<review, clock, lastCall, threads>>
    /\ UNCHANGED evalVars

\* ReviewQueue.remove: self._reviews.pop(review_id, None)
QueueRemove(t) ==
    /\ threads[t].pc = "idle"
    /\ queue' = queue \ {REVIEW_ID}
    /\ UNCHANGED <<review, clock, lastCall, threads>>
    /\ UNCHANGED evalVars

NextConc ==
    \E t \in Threads :
        \/ CallStartReview(t)
        \/ CallAccept(t)
        \/ CallDecline(t)
        \/ CallReset(t)
        \/ SetReasons(t)
        \/ SetNotes(t)
        \/ Check(t)
        \/ Raise(t)
        \/ Lookup(t)
        \/ Record(t)
        \/ AppendHistory(t)
        \/ SetState(t)
        \/ SetUpdatedAt(t)
        \/ QueueAdd(t)
        \/ QueueRemove(t)

SpecConc == Init /\ [][NextConc]_vars

(***************************************************************************)
(* Claims about the review state machine (Spec)                            *)
(***************************************************************************)
\* the transition table as section 4.6 of the specification states it
TransitionTable ==
    { <<"new", "start_review", "reviewing">>,
      <<"reviewing", "accept", "accepted">>,
      <<"reviewing", "decline", "declined">>,
      <<"reviewing", "reset", "new">>,
      <<"accepted", "reset", "new">>,
      <<"declined", "reset", "new">> }

IsPrefix(s, t) ==
    /\ Len(s) <= Len(t)
    /\ \A i \in 1..Len(s) : s[i] = t[i]

\* C1: a call succeeds exactly when (state before, action) is a row of the
\* table, and then the review is in the tabled state; every other call raises
\* InvalidTransitionError carrying the state before and the attempted action.
C1_TransitionTable ==
    [][ LET s == review.state
            a == lastCall'.action
        IN IF \E row \in TransitionTable : row[1] = s /\ row[2] = a
           THEN /\ lastCall'.raised = NoError
                /\ <<s, a, review'.state>> \in TransitionTable
           ELSE /\ lastCall'.raised = InvalidTransitionError(s, a)
                /\ review'.state = s ]_vars

\* C1 witness: after a review was accepted, a decline was refused with the
\* error naming ACCEPTED and decline
C1_Witness ==
    /\ review.state = "accepted"
    /\ lastCall.action = "decline"
    /\ lastCall.raised = InvalidTransitionError("accepted", "decline")

\* C2 (as claimed): a call that raises InvalidTransitionError leaves every
\* field of the review as it was before the call.
C2_FailedCallChangesNothing ==
    [][ lastCall'.raised # NoError => review' = review ]_vars

\* C3: every successful transition appends exactly one audit record (from the
\* state before, to the state after, action, actor, timestamp, notes) at the
\* end of the history and sets updated_at to the record's timestamp; no step
\* changes, reorders or removes a record already in the history.
C3_AuditTrail ==
    [][ /\ IsPrefix(review.history, review'.history)
        /\ lastCall'.raised = NoError =>
             /\ review'.history =
                  Append(review.history,
                         [from_state |-> review.state, to_state |-> review'.state,
                          action |-> lastCall'.action, actor |-> lastCall'.actor,
                          timestamp |-> clock', notes |-> lastCall'.notes])
             /\ review'.updated_at = clock'
             /\ clock' > clock
        /\ lastCall'.raised # NoError => review'.history = review.history ]_vars

\* C3 witness: a reset appended the third record of a history
C3_Witness ==
    /\ Len(review.history) = 3
    /\ lastCall.action = "reset"
    /\ lastCall.raised = NoError
    /\ review.history[3].action = "reset"
    /\ review.updated_at = review.history[3].timestamp

(***************************************************************************)
(* Claims about concurrent reviewers (SpecConc)                            *)
(***************************************************************************)
\* the ACCEPT and DECLINE records a history holds after its last START_REVIEW
TerminalRecords(history) ==
    LET starts == {i \in 1..Len(history) : history[i].action = "start_review"}
        last == IF starts = {} THEN 0 ELSE CHOOSE i \in starts : \A j \in starts : j <= i
    IN {i \in (last + 1)..Len(history) : history[i].action \in {"accept", "decline"}}

\* both calls were issued on a REVIEWING review while the other was running
ConcurrentAcceptDecline(t, u) ==
    /\ t # u
    /\ threads[t].pc = "idle" /\ threads[u].pc = "idle"
    /\ threads[t].action = "accept" /\ threads[u].action = "decline"
    /\ threads[t].began = "reviewing" /\ threads[u].began = "reviewing"
    /\ threads[t].overlapped /\ threads[u].overlapped

\* C4 (as claimed): when two reviewers concurrently issue accept and decline
\* on the same REVIEWING review, exactly one call succeeds and the other
\* raises InvalidTransitionError, and the history gains a single terminal
\* record, which matches the final state.
C4_ConcurrentCallsSerialized ==
    \A t, u \in Threads :
        ConcurrentAcceptDecline(t, u) =>
            /\ \/ /\ threads[t].raised = NoError
                  /\ threads[u].raised.type = "InvalidTransitionError"
               \/ /\ threads[u].raised = NoError
                  /\ threads[t].raised.type = "InvalidTransitionError"
            /\ Cardinality(TerminalRecords(review.history)) = 1
            /\ review.history[Len(review.history)].to_state = review.state

(***************************************************************************)
(* Python values. An Optional is None or Some(v); a float is the exact     *)
(* fraction n/d in lowest terms (d > 0), so every comparison with a        *)
(* threshold is decided on the exact value (the binary float of the code   *)
(* may differ from it in the last place, which matters only when a value   *)
(* lies exactly on a threshold); a str that the code slices or matches by  *)
(* prefix is the sequence of its characters.                               *)
(***************************************************************************)
None == <<>>

Some(v) == <<v>>

Val(x) == x[1]

\* `if x:` for an Optional[int]: neither None nor 0
TruthyInt(x) == x # None /\ Val(x) # 0

\* `if x:` for an Optional[float]: neither None nor 0.0
TruthyFloat(x) == x # None /\ Val(x).n # 0

\* `x in xs` for a list
In(x, xs) == \E i \in DOMAIN xs : xs[i] = x

Abs(i) == IF i < 0 THEN -i ELSE i

RECURSIVE GCD(_, _)
GCD(a, b) == IF b = 0 THEN a ELSE GCD(b, a % b)

Rat(n, d) ==
    LET g == GCD(Abs(n), Abs(d))
        s == IF d < 0 THEN -1 ELSE 1
    IN [n |-> s * (n \div g), d |-> Abs(d) \div g]

Float(i) == [n |-> i, d |-> 1]

RAdd(a, b) ==
    LET g == GCD(a.d, b.d)
    IN Rat(a.n * (b.d \div g) + b.n * (a.d \div g), (a.d \div g) * b.d)

RNeg(a) == [n |-> -a.n, d |-> a.d]

RSub(a, b) == RAdd(a, RNeg(b))

RMul(a, b) ==
    LET g1 == GCD(Abs(a.n), b.d)
        g2 == GCD(Abs(b.n), a.d)
    IN IF a.n = 0 \/ b.n = 0 THEN Float(0)
       ELSE [n |-> (a.n \div g1) * (b.n \div g2), d |-> (a.d \div g2) * (b.d \div g1)]

\* a / b for b # 0 (Python raises ZeroDivisionError otherwise)
RDiv(a, b) == RMul(a, Rat(b.d, b.n))

RLt(a, b) ==
    LET g == GCD(a.d, b.d) IN a.n * (b.d \div g) < b.n * (a.d \div g)

RLe(a, b) ==
    LET g == GCD(a.d, b.d) IN a.n * (b.d \div g) <= b.n * (a.d \div g)

RGt(a, b) == RLt(b, a)

RGe(a, b) == RLe(b, a)

RMax(a, b) == IF RLt(a, b) THEN b ELSE a

RMin(a, b) == IF RLt(b, a) THEN b ELSE a

RAbs(a) == [n |-> Abs(a.n), d |-> a.d]

RECURSIVE RSum(_)
RSum(xs) == IF xs = <<>> THEN Float(0) ELSE RAdd(Head(xs), RSum(Tail(xs)))

\* int(x): truncation towards zero
Trunc(a) == IF a.n >= 0 THEN a.n \div a.d ELSE -((-a.n) \div a.d)

\* the integer an f-string prints for {x:.0f}: nearest, ties to even
Fmt0(a) ==
    LET fl == a.n \div a.d
        twice == 2 * (a.n - fl * a.d)
    IN IF twice < a.d THEN fl
       ELSE IF twice > a.d THEN fl + 1
       ELSE IF fl % 2 = 0 THEN fl ELSE fl + 1

\* the text an f-string puts in for a number
Str(v) == ToString(v)

UpperChar(c) ==
    CASE c = "s" -> "S"
      [] c = "w" -> "W"
      [] c = "e" -> "E"
      [] c = "h" -> "H"
      [] c = "i" -> "I"
      [] OTHER -> c

\* str.upper()
upper(s) == [i \in 1..Len(s) |-> UpperChar(s[i])]

\* str.startswith(prefix)
startswith(s, prefix) ==
    /\ Len(prefix) <= Len(s)
    /\ \A i \in 1..Len(prefix) : s[i] = prefix[i]

RECURSIVE lstrip(_)
lstrip(s) == IF s # <<>> /\ Head(s) = " " THEN lstrip(Tail(s)) ELSE s

RECURSIVE FirstWord(_)
FirstWord(s) ==
    IF s = <<>> \/ Head(s) = " " THEN <<>> ELSE <<Head(s)>> \o FirstWord(Tail(s))

\* any(startswith(s, upper(p)) for p in prefixes)
AnyPrefix(s, prefixes) == \E i \in DOMAIN prefixes : startswith(s, upper(prefixes[i]))

(***************************************************************************)
(* core/listing.py, core/mandate.py: the accessors the evaluation uses     *)
(***************************************************************************)
\* Address.postcode_area: the outward code, upper-cased
postcode_area(address) ==
    IF address.postcode = <<>> THEN <<>>
    ELSE FirstWord(lstrip(upper(address.postcode)))

\* Listing.gross_yield: the stated yield if truthy, else rent / price * 100
gross_yield(self) ==
    IF TruthyFloat(self.financial.gross_yield) THEN self.financial.gross_yield
    ELSE IF TruthyInt(self.financial.current_rent) /\ self.financial.asking_price # 0
         THEN Some(RMul(Rat(Val(self.financial.current_rent), self.financial.asking_price),
                        Float(100)))
         ELSE None

accepts_asset_class(self, asset_class) ==
    IF self.asset_classes = <<>> THEN TRUE ELSE In(asset_class, self.asset_classes)

accepts_location(self, region, postcode) ==
    LET geo == self.geographic
        region_match == geo.regions = <<>> \/ In(region, geo.regions)
        postcode_match == geo.postcodes = <<>> \/ AnyPrefix(upper(postcode), geo.postcodes)
    IN IF In(region, geo.exclude_regions) THEN FALSE
       ELSE IF AnyPrefix(upper(postcode), geo.exclude_postcodes) THEN FALSE
       ELSE IF geo.regions = <<>> /\ geo.postcodes = <<>> THEN TRUE
       ELSE region_match \/ postcode_match

(***************************************************************************)
(* core/rejection.py                                                       *)
(***************************************************************************)
RejectionReason(category, severity, code, title, explanation, remedy) ==
    [category |-> category, severity |-> severity, code |-> code, title |-> title,
     explanation |-> explanation, remedy |-> remedy]

check_price_too_high(l, m) ==
    LET max_size == m.financial.max_deal_size
        price == l.financial.asking_price
    IN IF TruthyInt(max_size) /\ price > Val(max_size)
       THEN LET excess_pct == RMul(Rat(price - Val(max_size), Val(max_size)), Float(100))
            IN Some(RejectionReason("price",
                    IF RGt(excess_pct, Float(20)) THEN "hard" ELSE "soft",
                    "PRICE_EXCEEDS_MAX", "Price exceeds maximum",
                    <<"Asking price exceeds mandate maximum", Str(price), Str(Val(max_size)),
                      Str(Fmt0(excess_pct))>>,
                    <<"Price would need to reduce", Str(Val(max_size)), Str(Fmt0(excess_pct))>>))
       ELSE None

check_price_too_low(l, m) ==
    LET min_size == m.financial.min_deal_size
        price == l.financial.asking_price
    IN IF TruthyInt(min_size) /\ price < Val(min_size)
       THEN LET shortfall_pct == RMul(Rat(Val(min_size) - price, Val(min_size)), Float(100))
            IN Some(RejectionReason("price",
                    IF RGt(shortfall_pct, Float(30)) THEN "hard" ELSE "soft",
                    "PRICE_BELOW_MIN", "Price below minimum",
                    <<"Asking price is below mandate minimum", Str(price), Str(Val(min_size)),
                      Str(Fmt0(shortfall_pct))>>,
                    <<"Deal too small for mandate">>))
       ELSE None

check_location_excluded(l, m) ==
    LET geo == m.geographic
        region == l.address.region
        postcode == postcode_area(l.address)
        hits == {i \in DOMAIN geo.exclude_postcodes :
                    startswith(upper(postcode), upper(geo.exclude_postcodes[i]))}
    IN IF In(region, geo.exclude_regions)
       THEN Some(RejectionReason("location", "hard", "REGION_EXCLUDED", "Region excluded",
                 <<"Region is explicitly excluded", region>>,
                 <<"This location cannot be considered">>))
       ELSE IF hits # {}
       THEN LET first == CHOOSE i \in hits : \A j \in hits : i <= j
            IN Some(RejectionReason("location", "hard", "POSTCODE_EXCLUDED", "Postcode excluded",
                    <<"Postcode falls within excluded area", Str(postcode),
                      Str(geo.exclude_postcodes[first])>>,
                    <<"This location cannot be considered">>))
       ELSE None

check_location_outside_target(l, m) ==
    LET geo == m.geographic
        region == l.address.region
        postcode == postcode_area(l.address)
        region_match == geo.regions = <<>> \/ In(region, geo.regions)
        postcode_match == geo.postcodes = <<>> \/ AnyPrefix(upper(postcode), geo.postcodes)
        target_areas == [i \in DOMAIN geo.regions |-> Str(geo.regions[i])]
                        \o [i \in DOMAIN geo.postcodes |-> Str(geo.postcodes[i])]
    IN IF geo.regions = <<>> /\ geo.postcodes = <<>> THEN None
       ELSE IF ~region_match /\ ~postcode_match
       THEN Some(RejectionReason("location", "soft", "LOCATION_NOT_TARGET",
                 "Outside target location",
                 <<"Location is not within mandate target areas", region, Str(postcode)>>
                     \o SubSeq(target_areas, 1, IF Len(target_areas) < 5 THEN Len(target_areas) ELSE 5),
                 <<"Mandate would need to be amended">>))
       ELSE None

check_yield_insufficient(l, m) ==
    LET min_yield == m.financial.min_yield
        listing_yield == gross_yield(l)
    IN IF TruthyFloat(min_yield) /\ listing_yield # None /\ RLt(Val(listing_yield), Val(min_yield))
       THEN LET shortfall == RSub(Val(min_yield), Val(listing_yield))
            IN Some(RejectionReason("yield",
                    IF RGt(shortfall, Float(2)) THEN "hard" ELSE "soft",
                    "YIELD_BELOW_MIN", "Yield below minimum",
                    <<"Gross yield is below mandate minimum", Str(Val(listing_yield)),
                      Str(Val(min_yield)), Str(shortfall)>>,
                    <<"Would require price reduction",
                      Str(Fmt0(RMul(RDiv(shortfall, Val(listing_yield)), Float(100))))>>))
       ELSE None

check_asset_class_mismatch(l, m) ==
    IF m.asset_classes # <<>> /\ ~In(l.asset_class, m.asset_classes)
    THEN Some(RejectionReason("asset_class", "hard", "ASSET_CLASS_MISMATCH",
              "Asset class not accepted",
              <<"Asset class is not in mandate-accepted classes", l.asset_class>> \o m.asset_classes,
              <<"This asset class cannot be considered">>))
    ELSE None

check_tenure_unacceptable(l, m) ==
    LET prop == m.property
        remaining == l.financial.lease_years_remaining
    IN IF prop.freehold_only /\ l.tenure \notin {"freehold", "share_of_freehold"}
       THEN Some(RejectionReason("tenure", "hard", "FREEHOLD_REQUIRED", "Freehold required",
                 <<"Mandate requires freehold", l.tenure>>,
                 <<"Cannot proceed unless freehold is acquired">>))
       ELSE IF /\ TruthyInt(prop.min_lease_years) /\ l.tenure = "leasehold"
               /\ remaining # None /\ Val(remaining) < Val(prop.min_lease_years)
       THEN Some(RejectionReason("tenure",
                 IF Val(remaining) < 80 THEN "hard" ELSE "soft",
                 "LEASE_TOO_SHORT", "Lease too short",
                 <<"Lease is below mandate minimum", Str(Val(remaining)),
                   Str(Val(prop.min_lease_years))>>,
                 <<"Would require lease extension",
                   Str(Val(prop.min_lease_years) - Val(remaining))>>))
       ELSE None

check_condition_unacceptable(l, m) ==
    LET prop == m.property
        condition == l.property_details.condition
    IN IF condition = "development" /\ ~prop.accept_development
       THEN Some(RejectionReason("property", "hard", "DEVELOPMENT_NOT_ACCEPTED",
                 "Development not accepted",
                 <<"Property requires development">>,
                 <<"Mandate does not permit development risk">>))
       ELSE IF condition \in {"light_refurb", "heavy_refurb"} /\ ~prop.accept_refurbishment
       THEN Some(RejectionReason("property", "soft", "REFURB_NOT_ACCEPTED",
                 "Refurbishment not accepted",
                 <<"Property requires works", condition>>,
                 <<"Consider if works can be minimized">>))
       ELSE None

check_unit_count(l, m) ==
    LET prop == m.property
        units == l.property_details.unit_count
    IN IF TruthyInt(prop.min_units) /\ units < Val(prop.min_units)
       THEN Some(RejectionReason("property", "soft", "UNITS_BELOW_MIN", "Too few units",
                 <<"Units below mandate minimum", Str(units), Str(Val(prop.min_units))>>,
                 <<"Consider aggregating with adjacent properties">>))
       ELSE IF TruthyInt(prop.max_units) /\ units > Val(prop.max_units)
       THEN Some(RejectionReason("property", "soft", "UNITS_ABOVE_MAX", "Too many units",
                 <<"Units above mandate maximum", Str(units), Str(Val(prop.max_units))>>,
                 <<"Consider partial acquisition">>))
       ELSE None

check_data_quality(l, m) ==
    LET missing ==
            (IF l.address.postcode = <<>> THEN <<"postcode">> ELSE <<>>)
         \o (IF l.address.region = "" THEN <<"region">> ELSE <<>>)
         \o (IF l.financial.asking_price <= 0 THEN <<"valid price">> ELSE <<>>)
         \o (IF l.property_details.condition = "unknown" THEN <<"property condition">> ELSE <<>>)
    IN IF missing # <<>>
       THEN Some(RejectionReason("data_quality", "soft", "MISSING_DATA", "Incomplete data",
                 <<"Missing essential data">> \o missing,
                 <<"Obtain missing information">>))
       ELSE None

REJECTION_RULES ==
    << "check_asset_class_mismatch", "check_location_excluded", "check_price_too_high",
       "check_price_too_low", "check_yield_insufficient", "check_tenure_unacceptable",
       "check_condition_unacceptable", "check_location_outside_target", "check_unit_count",
       "check_data_quality" >>

\* rule(listing, mandate) for a rule of the list
ApplyRule(rule, l, m) ==
    CASE rule = "check_asset_class_mismatch"    -> check_asset_class_mismatch(l, m)
      [] rule = "check_location_excluded"       -> check_location_excluded(l, m)
      [] rule = "check_price_too_high"          -> check_price_too_high(l, m)
      [] rule = "check_price_too_low"           -> check_price_too_low(l, m)
      [] rule = "check_yield_insufficient"      -> check_yield_insufficient(l, m)
      [] rule = "check_tenure_unacceptable"     -> check_tenure_unacceptable(l, m)
      [] rule = "check_condition_unacceptable"  -> check_condition_unacceptable(l, m)
      [] rule = "check_location_outside_target" -> check_location_outside_target(l, m)
      [] rule = "check_unit_count"              -> check_unit_count(l, m)
      [] rule = "check_data_quality"            -> check_data_quality(l, m)

\* mutant: the loop stops at a HARD reason before recording it
RECURSIVE RejectionLoop_StopBeforeAppend(_, _, _, _, _, _)
RejectionLoop_StopBeforeAppend(active_rules, i, l, m, stop_on_hard, reasons) ==
    IF i > Len(active_rules) THEN reasons
    ELSE LET reason == ApplyRule(active_rules[i], l, m)
         IN IF reason = None
            THEN RejectionLoop_StopBeforeAppend(active_rules, i + 1, l, m, stop_on_hard,
                                                reasons)
            ELSE IF stop_on_hard /\ Val(reason).severity = "hard"
            THEN reasons
            ELSE RejectionLoop_StopBeforeAppend(active_rules, i + 1, l, m, stop_on_hard,
                                                Append(reasons, Val(reason)))

\* the loop of evaluate_rejection from rule i on, with the reasons found so far
RECURSIVE RejectionLoop(_, _, _, _, _, _)
RejectionLoop(active_rules, i, l, m, stop_on_hard, reasons) ==
    IF i > Len(active_rules) THEN reasons
    ELSE LET reason == ApplyRule(active_rules[i], l, m)
         IN IF reason = None
            THEN RejectionLoop(active_rules, i + 1, l, m, stop_on_hard, reasons)
            ELSE IF stop_on_hard /\ Val(reason).severity = "hard"
            THEN Append(reasons, Val(reason))
            ELSE RejectionLoop(active_rules, i + 1, l, m, stop_on_hard,
                               Append(reasons, Val(reason)))

RejectionResult(listing_id, mandate_id, rejected, reasons) ==
    [listing_id |-> listing_id, mandate_id |-> mandate_id, rejected |-> rejected,
     reasons |-> reasons]

hard_rejections(self) == SelectSeq(self.reasons, LAMBDA r : r.severity = "hard")

soft_rejections(self) == SelectSeq(self.reasons, LAMBDA r : r.severity = "soft")

\* rules is None or a list of rule names; an empty list is falsy and the
\* default REJECTION_RULES apply
evaluate_rejection(l, m, rules, stop_on_hard) ==
    LET active_rules == IF rules = None \/ Val(rules) = <<>> THEN REJECTION_RULES ELSE Val(rules)
        reasons == RejectionLoop(active_rules, 1, l, m, stop_on_hard, <<>>)
        has_hard_rejection == \E i \in DOMAIN reasons : reasons[i].severity = "hard"
    IN RejectionResult(l.listing_id, m.mandate_id, has_hard_rejection, reasons)

(***************************************************************************)
(* core/scoring.py                                                         *)
(***************************************************************************)
WeightNames ==
    {"location_region", "location_postcode", "price_range", "price_psf", "yield_minimum",
     "yield_target", "property_size", "property_condition", "property_tenure", "risk_profile"}

DEFAULT_WEIGHTS ==
    [k \in WeightNames |->
        CASE k = "location_region"    -> Rat(15, 100)
          [] k = "location_postcode"  -> Rat(10, 100)
          [] k = "price_range"        -> Rat(20, 100)
          [] k = "price_psf"          -> Rat(5, 100)
          [] k = "yield_minimum"      -> Rat(15, 100)
          [] k = "yield_target"       -> Rat(10, 100)
          [] k = "property_size"      -> Rat(5, 100)
          [] k = "property_condition" -> Rat(10, 100)
          [] k = "property_tenure"    -> Rat(5, 100)
          [] k = "risk_profile"       -> Rat(5, 100)]

\* an exception that leaves the evaluation instead of a result
Raised(exception) == [raised |-> exception]

IsRaised(r) == "raised" \in DOMAIN r

ScoreFactor(category, name, score, weight, explanation) ==
    [category |-> category, name |-> name, score |-> score, weight |-> weight,
     weighted_score |-> RMul(score, weight), explanation |-> explanation]

_calculate_grade(score) ==
    IF RGe(score, Float(90)) THEN "A"
    ELSE IF RGe(score, Float(75)) THEN "B"
    ELSE IF RGe(score, Float(60)) THEN "C"
    ELSE IF RGe(score, Float(40)) THEN "D"
    ELSE "F"

_score_location(l, m, weights) ==
    LET geo == m.geographic
        area == postcode_area(l.address)
        region ==
            IF geo.regions = <<>> THEN <<Float(1), "No region restrictions">>
            ELSE IF In(l.address.region, geo.regions) THEN <<Float(1), "Region matches mandate">>
            ELSE IF In(l.address.region, geo.exclude_regions) THEN <<Float(0), "Region is excluded">>
            ELSE <<Rat(3, 10), "Region not in preferred list">>
        postcode ==
            IF geo.postcodes = <<>> THEN <<Float(1), "No postcode restrictions">>
            ELSE IF AnyPrefix(area, geo.postcodes) THEN <<Float(1), "Postcode matches mandate">>
            ELSE IF AnyPrefix(area, geo.exclude_postcodes) THEN <<Float(0), "Postcode is excluded">>
            ELSE <<Rat(5, 10), "Postcode not in preferred list">>
    IN << ScoreFactor("location", "region_match", region[1], weights["location_region"], region[2]),
          ScoreFactor("location", "postcode_match", postcode[1], weights["location_postcode"],
                      postcode[2]) >>

\* the division (price - min_size) / (max_size - min_size) by zero
PriceRangeRaises(l, m) ==
    LET min_size == m.financial.min_deal_size
        max_size == m.financial.max_deal_size
        price == l.financial.asking_price
    IN /\ TruthyInt(min_size) /\ TruthyInt(max_size)
       /\ Val(min_size) <= price /\ price <= Val(max_size)
       /\ Val(max_size) = Val(min_size)

\* the price factors with the signed distance from the middle of the range
_score_price_SignedDistance(l, m, weights) ==
    LET fin == m.financial
        price == l.financial.asking_price
        min_size == fin.min_deal_size
        max_size == fin.max_deal_size
        below(base) ==
            RMax(Float(0), RSub(base, Rat(Val(min_size) - price, Val(min_size))))
        above ==
            RMax(Float(0), RSub(Rat(5, 10), Rat(price - Val(max_size), Val(max_size))))
        range ==
            IF TruthyInt(min_size) /\ TruthyInt(max_size)
            THEN IF Val(min_size) <= price /\ price <= Val(max_size)
                 THEN LET range_position ==
                              Rat(price - Val(min_size), Val(max_size) - Val(min_size))
                      IN <<RSub(Float(1), RMul(RSub(Rat(5, 10), range_position), Rat(4, 10))),
                           "Price within range">>
                 ELSE IF price < Val(min_size)
                 THEN <<below(Rat(5, 10)), "Price below minimum">>
                 ELSE <<above, "Price above maximum">>
            ELSE IF TruthyInt(min_size)
            THEN IF price >= Val(min_size) THEN <<Float(1), "Price meets minimum">>
                 ELSE <<below(Rat(7, 10)), "Price below minimum">>
            ELSE IF TruthyInt(max_size)
            THEN IF price <= Val(max_size) THEN <<Float(1), "Price within maximum">>
                 ELSE <<above, "Price above maximum">>
            ELSE <<Float(1), "No price constraints">>
        psf ==
            IF TruthyFloat(fin.max_price_psf) /\ TruthyFloat(l.financial.price_per_sqft)
            THEN LET p == Val(l.financial.price_per_sqft)
                     mx == Val(fin.max_price_psf)
                 IN IF RLe(p, mx) THEN <<Float(1), "Price/sqft within max">>
                    ELSE <<RMax(Float(0), RSub(Rat(8, 10), RDiv(RSub(p, mx), mx))),
                           "Price/sqft above max">>
            ELSE <<Float(1), "Price per sq ft not evaluated">>
    IN << ScoreFactor("price", "price_range", range[1], weights["price_range"], range[2]),
          ScoreFactor("price", "price_psf", psf[1], weights["price_psf"], psf[2]) >>

_score_price(l, m, weights) ==
    LET fin == m.financial
        price == l.financial.asking_price
        min_size == fin.min_deal_size
        max_size == fin.max_deal_size
        below(base) ==
            RMax(Float(0), RSub(base, Rat(Val(min_size) - price, Val(min_size))))
        above ==
            RMax(Float(0), RSub(Rat(5, 10), Rat(price - Val(max_size), Val(max_size))))
        range ==
            IF TruthyInt(min_size) /\ TruthyInt(max_size)
            THEN IF Val(min_size) <= price /\ price <= Val(max_size)
                 THEN LET range_position ==
                              Rat(price - Val(min_size), Val(max_size) - Val(min_size))
                      IN <<RSub(Float(1), RMul(RAbs(RSub(Rat(5, 10), range_position)), Rat(4, 10))),
                           "Price within range">>
                 ELSE IF price < Val(min_size)
                 THEN <<below(Rat(5, 10)), "Price below minimum">>
                 ELSE <<above, "Price above maximum">>
            ELSE IF TruthyInt(min_size)
            THEN IF price >= Val(min_size) THEN <<Float(1), "Price meets minimum">>
                 ELSE <<below(Rat(7, 10)), "Price below minimum">>
            ELSE IF TruthyInt(max_size)
            THEN IF price <= Val(max_size) THEN <<Float(1), "Price within maximum">>
                 ELSE <<above, "Price above maximum">>
            ELSE <<Float(1), "No price constraints">>
        psf ==
            IF TruthyFloat(fin.max_price_psf) /\ TruthyFloat(l.financial.price_per_sqft)
            THEN LET p == Val(l.financial.price_per_sqft)
                     mx == Val(fin.max_price_psf)
                 IN IF RLe(p, mx) THEN <<Float(1), "Price/sqft within max">>
                    ELSE <<RMax(Float(0), RSub(Rat(8, 10), RDiv(RSub(p, mx), mx))),
                           "Price/sqft above max">>
            ELSE <<Float(1), "Price per sq ft not evaluated">>
    IN << ScoreFactor("price", "price_range", range[1], weights["price_range"], range[2]),
          ScoreFactor("price", "price_psf", psf[1], weights["price_psf"], psf[2]) >>

_score_yield(l, m, weights) ==
    LET fin == m.financial
        listing_yield == gross_yield(l)
        minimum ==
            IF TruthyFloat(fin.min_yield)
            THEN IF listing_yield = None THEN <<Rat(5, 10), "Yield data not available">>
                 ELSE IF RGe(Val(listing_yield), Val(fin.min_yield))
                 THEN <<Float(1), "Yield meets minimum">>
                 ELSE LET shortfall ==
                              RDiv(RSub(Val(fin.min_yield), Val(listing_yield)), Val(fin.min_yield))
                      IN <<RMax(Float(0), RSub(Rat(7, 10), shortfall)), "Yield below minimum">>
            ELSE <<Float(1), "No minimum yield requirement">>
        target ==
            IF TruthyFloat(fin.target_yield)
            THEN IF listing_yield = None THEN <<Rat(5, 10), "Yield data not available">>
                 ELSE IF RGe(Val(listing_yield), Val(fin.target_yield))
                 THEN LET excess ==
                              RDiv(RSub(Val(listing_yield), Val(fin.target_yield)),
                                   Val(fin.target_yield))
                      IN <<RMin(Float(1), RAdd(Rat(9, 10), RMul(excess, Rat(2, 10)))),
                           "Yield meets/exceeds target">>
                 ELSE LET shortfall ==
                              RDiv(RSub(Val(fin.target_yield), Val(listing_yield)),
                                   Val(fin.target_yield))
                      IN <<RMax(Rat(3, 10), RSub(Rat(9, 10), shortfall)), "Yield below target">>
            ELSE <<Float(1), "No target yield specified">>
    IN << ScoreFactor("yield", "yield_minimum", minimum[1], weights["yield_minimum"], minimum[2]),
          ScoreFactor("yield", "yield_target", target[1], weights["yield_target"], target[2]) >>

_score_property(l, m, weights) ==
    LET prop_mandate == m.property
        prop_listing == l.property_details
        units == prop_listing.unit_count
        condition == prop_listing.condition
        remaining == l.financial.lease_years_remaining
        size ==
            IF TruthyInt(prop_mandate.min_units) \/ TruthyInt(prop_mandate.max_units)
            THEN IF TruthyInt(prop_mandate.min_units) /\ units < Val(prop_mandate.min_units)
                 THEN <<Rat(5, 10), "Unit count below minimum">>
                 ELSE IF TruthyInt(prop_mandate.max_units) /\ units > Val(prop_mandate.max_units)
                 THEN <<Rat(5, 10), "Unit count above maximum">>
                 ELSE <<Float(1), "Unit count within requirements">>
            ELSE <<Float(1), "No unit count requirements">>
        cond ==
            IF condition = "turnkey"
            THEN IF prop_mandate.accept_turnkey THEN <<Float(1), "Turnkey property accepted">>
                 ELSE <<Rat(3, 10), "Turnkey not preferred">>
            ELSE IF condition \in {"light_refurb", "heavy_refurb"}
            THEN IF prop_mandate.accept_refurbishment
                 THEN <<Float(1), "Refurbishment opportunity accepted">>
                 ELSE <<Rat(3, 10), "Refurbishment not preferred">>
            ELSE IF condition = "development"
            THEN IF prop_mandate.accept_development
                 THEN <<Float(1), "Development opportunity accepted">>
                 ELSE <<Rat(2, 10), "Development not accepted">>
            ELSE <<Rat(7, 10), "Condition unknown">>
        tenure ==
            IF prop_mandate.freehold_only
            THEN IF l.tenure = "freehold" THEN <<Float(1), "Freehold as required">>
                 ELSE IF l.tenure = "share_of_freehold" THEN <<Rat(8, 10), "Share of freehold">>
                 ELSE <<Rat(2, 10), "Leasehold but freehold required">>
            ELSE IF TruthyInt(prop_mandate.min_lease_years) /\ l.tenure = "leasehold"
            THEN IF remaining = None THEN <<Rat(6, 10), "Lease length unknown">>
                 ELSE IF Val(remaining) >= Val(prop_mandate.min_lease_years)
                 THEN <<Float(1), "Lease meets minimum">>
                 ELSE <<Rat(4, 10), "Lease below minimum">>
            ELSE <<Float(1), "Tenure acceptable">>
    IN << ScoreFactor("property", "property_size", size[1], weights["property_size"], size[2]),
          ScoreFactor("property", "property_condition", cond[1], weights["property_condition"],
                      cond[2]),
          ScoreFactor("property", "property_tenure", tenure[1], weights["property_tenure"],
                      tenure[2]) >>

\* the position of a risk profile in risk_levels
RiskLevel(profile) ==
    CASE profile = "core" -> 0
      [] profile = "core_plus" -> 1
      [] profile = "value_add" -> 2
      [] profile = "opportunistic" -> 3

\* condition_risk_map
ImpliedRisk(condition) ==
    CASE condition = "turnkey" -> "core"
      [] condition = "light_refurb" -> "core_plus"
      [] condition = "heavy_refurb" -> "value_add"
      [] condition = "development" -> "opportunistic"
      [] OTHER -> "core_plus"

_score_risk(l, m, weights) ==
    LET level_diff == RiskLevel(ImpliedRisk(l.property_details.condition))
                      - RiskLevel(m.risk_profile)
        risk ==
            IF level_diff = 0 THEN <<Float(1), "Risk profile matches">>
            ELSE IF level_diff = 1 THEN <<Rat(7, 10), "Slightly higher risk">>
            ELSE IF level_diff = -1 THEN <<Rat(8, 10), "Slightly lower risk">>
            ELSE IF level_diff > 1 THEN <<Rat(3, 10), "Significantly higher risk">>
            ELSE <<Rat(6, 10), "Lower risk">>
    IN << ScoreFactor("risk", "risk_profile", risk[1], weights["risk_profile"], risk[2]) >>

ScoringResult(listing_id, mandate_id, total_score, factors, passes_hard_filters, disqualification_reasons) ==
    [listing_id |-> listing_id, mandate_id |-> mandate_id, total_score |-> total_score,
     match_grade |-> _calculate_grade(total_score), factors |-> factors,
     passes_hard_filters |-> passes_hard_filters,
     disqualification_reasons |-> disqualification_reasons]

\* the result with only the asset class treated as a hard filter
ScoreOfFactors_LocationNotHard(l, m, factors) ==
    LET passes_hard_filters == accepts_asset_class(m, l.asset_class)
        total_weighted == RSum([i \in DOMAIN factors |-> factors[i].weighted_score])
        total_weight == RSum([i \in DOMAIN factors |-> factors[i].weight])
        normalized_score ==
            IF RGt(total_weight, Float(0))
            THEN RMul(RDiv(total_weighted, total_weight), Float(100))
            ELSE Float(0)
    IN ScoringResult(l.listing_id, m.mandate_id,
                     IF passes_hard_filters THEN normalized_score
                     ELSE RMul(normalized_score, Rat(3, 10)),
                     factors, passes_hard_filters,
                     IF passes_hard_filters THEN <<>>
                     ELSE <<"Asset class not accepted by mandate">>)

\* lines 523-569 of score_listing: the hard filters and the normalised score
\* of the collected factors
ScoreOfFactors(l, m, factors) ==
    LET asset_ok == accepts_asset_class(m, l.asset_class)
        location_ok == accepts_location(m, l.address.region, postcode_area(l.address))
        passes_hard_filters == asset_ok /\ location_ok
        disqualification_reasons ==
            (IF asset_ok THEN <<>> ELSE <<"Asset class not accepted by mandate">>)
         \o (IF location_ok THEN <<>> ELSE <<"Location excluded by mandate">>)
        total_weighted == RSum([i \in DOMAIN factors |-> factors[i].weighted_score])
        total_weight == RSum([i \in DOMAIN factors |-> factors[i].weight])
        normalized_score ==
            IF RGt(total_weight, Float(0))
            THEN RMul(RDiv(total_weighted, total_weight), Float(100))
            ELSE Float(0)
        penalised ==
            IF passes_hard_filters THEN normalized_score
            ELSE RMul(normalized_score, Rat(3, 10))
    IN ScoringResult(l.listing_id, m.mandate_id, penalised, factors,
                     passes_hard_filters, disqualification_reasons)

\* weights is None or a dict of overrides; an empty dict is falsy
score_listing(l, m, weights) ==
    LET active_weights ==
            IF weights = None \/ DOMAIN Val(weights) = {}
            THEN m.scoring_weights
            ELSE [k \in WeightNames |->
                    IF k \in DOMAIN Val(weights) THEN Val(weights)[k] ELSE DEFAULT_WEIGHTS[k]]
    IN IF PriceRangeRaises(l, m) THEN Raised("ZeroDivisionError")
       ELSE ScoreOfFactors(l, m,
                _score_location(l, m, active_weights) \o _score_price(l, m, active_weights)
                \o _score_yield(l, m, active_weights) \o _score_property(l, m, active_weights)
                \o _score_risk(l, m, active_weights))

(***************************************************************************)
(* core/conviction.py                                                      *)
(***************************************************************************)
ConvictionLevel == {"high", "medium", "low", "none"}

ConvictionFactor(name, met, weight, reason) ==
    [name |-> name, met |-> met, weight |-> weight, reason |-> reason]

_assess_price_conviction(l, m, scoring_result) ==
    LET fin == m.financial
        price == l.financial.asking_price
        positioning ==
            IF TruthyInt(fin.min_deal_size) /\ TruthyInt(fin.max_deal_size)
            THEN LET range_size == Val(fin.max_deal_size) - Val(fin.min_deal_size)
                     position == IF range_size > 0
                                 THEN Rat(price - Val(fin.min_deal_size), range_size)
                                 ELSE Rat(5, 10)
                 IN IF RLe(Rat(2, 10), position) /\ RLe(position, Rat(8, 10))
                    THEN <<ConvictionFactor("price_positioning", TRUE, Rat(15, 100),
                                            "Price well-positioned in mandate range")>>
                    ELSE IF RLt(position, Rat(2, 10))
                    THEN <<ConvictionFactor("price_positioning", TRUE, Rat(10, 100),
                                            "Price at lower end of range")>>
                    ELSE <<ConvictionFactor("price_positioning", FALSE, Rat(10, 100),
                                            "Price at upper end of range")>>
            ELSE <<>>
        psf_value ==
            IF TruthyFloat(l.financial.price_per_sqft) /\ TruthyFloat(fin.max_price_psf)
            THEN LET psf == Val(l.financial.price_per_sqft)
                     mx == Val(fin.max_price_psf)
                 IN IF RLe(psf, RMul(mx, Rat(85, 100)))
                    THEN <<ConvictionFactor("price_psf_value", TRUE, Rat(10, 100),
                                            "Price/sqft significantly below max")>>
                    ELSE IF RLe(psf, mx)
                    THEN <<ConvictionFactor("price_psf_value", TRUE, Rat(5, 100),
                                            "Price/sqft within acceptable range")>>
                    ELSE <<>>
            ELSE <<>>
    IN positioning \o psf_value

_assess_yield_conviction(l, m, scoring_result) ==
    LET fin == m.financial
        listing_yield == gross_yield(l)
        buffer ==
            IF TruthyFloat(fin.min_yield)
            THEN LET yield_buffer == RSub(Val(listing_yield), Val(fin.min_yield))
                 IN IF RGe(yield_buffer, Float(2))
                    THEN <<ConvictionFactor("yield_buffer", TRUE, Rat(20, 100),
                                            "Yield exceeds minimum - strong buffer")>>
                    ELSE IF RGe(yield_buffer, Float(1))
                    THEN <<ConvictionFactor("yield_buffer", TRUE, Rat(15, 100),
                                            "Yield exceeds minimum - adequate buffer")>>
                    ELSE IF RGe(yield_buffer, Float(0))
                    THEN <<ConvictionFactor("yield_buffer", TRUE, Rat(5, 100),
                                            "Yield meets minimum but limited buffer")>>
                    ELSE <<ConvictionFactor("yield_buffer", FALSE, Rat(20, 100),
                                            "Yield below minimum")>>
            ELSE <<>>
        target ==
            IF TruthyFloat(fin.target_yield) /\ RGe(Val(listing_yield), Val(fin.target_yield))
            THEN <<ConvictionFactor("yield_target", TRUE, Rat(15, 100),
                                    "Yield meets/exceeds target")>>
            ELSE <<>>
    IN IF listing_yield = None
       THEN <<ConvictionFactor("yield_data", FALSE, Rat(15, 100), "No yield data available")>>
       ELSE buffer \o target

_assess_location_conviction(l, m, scoring_result) ==
    LET geo == m.geographic
        region == l.address.region
        postcode == postcode_area(l.address)
        region_match ==
            IF In(region, geo.regions)
            THEN <<ConvictionFactor("region_match", TRUE, Rat(15, 100),
                                    "Region explicitly targeted by mandate")>>
            ELSE IF geo.regions = <<>>
            THEN <<ConvictionFactor("region_match", TRUE, Rat(5, 100),
                                    "No region restrictions - location acceptable")>>
            ELSE <<>>
        exact_match == \E i \in DOMAIN geo.postcodes : upper(postcode) = upper(geo.postcodes[i])
        prefix_match == AnyPrefix(upper(postcode), geo.postcodes)
        postcode_match ==
            IF geo.postcodes # <<>> /\ exact_match
            THEN <<ConvictionFactor("postcode_match", TRUE, Rat(15, 100),
                                    "Postcode exactly matches mandate target")>>
            ELSE IF geo.postcodes # <<>> /\ prefix_match
            THEN <<ConvictionFactor("postcode_match", TRUE, Rat(10, 100),
                                    "Postcode within targeted area")>>
            ELSE <<>>
    IN region_match \o postcode_match

_assess_property_conviction(l, m, scoring_result) ==
    LET prop_mandate == m.property
        prop_listing == l.property_details
        units == prop_listing.unit_count
        condition == prop_listing.condition
        unit_count ==
            IF /\ TruthyInt(prop_mandate.min_units) /\ TruthyInt(prop_mandate.max_units)
               /\ Val(prop_mandate.min_units) <= units /\ units <= Val(prop_mandate.max_units)
               /\ Val(prop_mandate.max_units) - Val(prop_mandate.min_units) > 0
            THEN LET position == Rat(units - Val(prop_mandate.min_units),
                                     Val(prop_mandate.max_units) - Val(prop_mandate.min_units))
                 IN IF RLe(Rat(2, 10), position) /\ RLe(position, Rat(8, 10))
                    THEN <<ConvictionFactor("unit_count", TRUE, Rat(10, 100),
                                            "Unit count in optimal range for mandate")>>
                    ELSE <<ConvictionFactor("unit_count", TRUE, Rat(5, 100),
                                            "Unit count acceptable but at edge of range")>>
            ELSE <<>>
        condition_fit ==
            IF condition = "turnkey" /\ prop_mandate.accept_turnkey
            THEN <<ConvictionFactor("condition_fit", TRUE, Rat(15, 100), "Turnkey property")>>
            ELSE IF condition = "light_refurb" /\ prop_mandate.accept_refurbishment
            THEN <<ConvictionFactor("condition_fit", TRUE, Rat(12, 100),
                                    "Light refurb opportunity")>>
            ELSE IF condition = "heavy_refurb" /\ prop_mandate.accept_refurbishment
            THEN <<ConvictionFactor("condition_fit", TRUE, Rat(8, 100), "Heavy refurb")>>
            ELSE IF condition = "development" /\ prop_mandate.accept_development
            THEN <<ConvictionFactor("condition_fit", TRUE, Rat(5, 100),
                                    "Development opportunity")>>
            ELSE IF condition = "unknown"
            THEN <<ConvictionFactor("condition_fit", FALSE, Rat(10, 100),
                                    "Property condition unknown - requires inspection")>>
            ELSE <<>>
        income_status ==
            IF prop_listing.has_tenants
            THEN <<ConvictionFactor("income_status", TRUE, Rat(10, 100), "Property tenanted")>>
            ELSE <<>>
    IN unit_count \o condition_fit \o income_status

_assess_risk_conviction(l, m, scoring_result) ==
    LET tenure == l.tenure
        remaining == l.financial.lease_years_remaining
    IN IF tenure = "freehold"
       THEN <<ConvictionFactor("tenure_security", TRUE, Rat(10, 100), "Freehold tenure")>>
       ELSE IF tenure = "share_of_freehold"
       THEN <<ConvictionFactor("tenure_security", TRUE, Rat(8, 100), "Share of freehold")>>
       ELSE IF tenure = "leasehold"
       THEN IF TruthyInt(remaining) /\ Val(remaining) >= 125
            THEN <<ConvictionFactor("tenure_security", TRUE, Rat(8, 100), "Long leasehold")>>
            ELSE IF TruthyInt(remaining) /\ Val(remaining) >= 80
            THEN <<ConvictionFactor("tenure_security", TRUE, Rat(5, 100), "Medium leasehold")>>
            ELSE IF TruthyInt(remaining)
            THEN <<ConvictionFactor("tenure_security", FALSE, Rat(10, 100), "Short leasehold")>>
            ELSE <<>>
       ELSE <<>>

\* sorted(positive, key=weight, reverse=True)[:2]: the sort is stable
TopTwoByWeight(fs) ==
    LET Best(idx) == CHOOSE i \in idx :
                        \A j \in idx : \/ RGt(fs[i].weight, fs[j].weight)
                                       \/ (fs[i].weight = fs[j].weight /\ i <= j)
        all == DOMAIN fs
    IN IF Len(fs) = 0 THEN <<>>
       ELSE IF Len(fs) = 1 THEN fs
       ELSE LET b1 == Best(all) IN <<fs[b1], fs[Best(all \ {b1})]>>

FirstN(xs, n) == SubSeq(xs, 1, IF Len(xs) < n THEN Len(xs) ELSE n)

FactorReasons(fs) == [i \in DOMAIN fs |-> fs[i].reason]

_generate_summary(level, positive, negative, scoring_result) ==
    LET match == <<scoring_result.match_grade, Str(Fmt0(scoring_result.total_score))>>
    IN IF level = "high"
       THEN <<"Strong match">> \o match
            \o (IF positive # <<>> THEN <<"Key strengths">> \o FactorReasons(TopTwoByWeight(positive))
                ELSE <<>>)
       ELSE IF level = "medium"
       THEN <<"Moderate match">> \o match
            \o (IF positive # <<>> THEN <<"positive factors identified", Str(Len(positive))>>
                ELSE <<>>)
            \o (IF negative # <<>> THEN <<"areas require attention", Str(Len(negative))>>
                ELSE <<>>)
       ELSE IF level = "low"
       THEN <<"Marginal match">> \o match
            \o (IF negative # <<>> THEN <<"Concerns">> \o FactorReasons(FirstN(negative, 2)) ELSE <<>>)
       ELSE <<"Does not meet minimum criteria">>
            \o (IF scoring_result.disqualification_reasons # <<>>
                THEN <<"Disqualified">> \o FirstN(scoring_result.disqualification_reasons, 2)
                ELSE <<>>)

_generate_recommendation(level, l, m) ==
    IF level = "high" THEN "RECOMMEND: Proceed to detailed due diligence and investor presentation"
    ELSE IF level = "medium" THEN "CONSIDER: Review with investment committee, clarify open items"
    ELSE IF level = "low" THEN "WATCH: Monitor for price reduction or changed circumstances"
    ELSE "PASS: Does not meet mandate criteria"

\* mutant: a failed hard filter no longer forces the level to NONE
DetermineLevel_NoHardFilterGate(scoring_result, final_confidence, deal) ==
    IF RGe(final_confidence, deal.high_conviction_threshold) THEN "high"
    ELSE IF RGe(final_confidence, deal.medium_conviction_threshold) THEN "medium"
    ELSE IF RGe(final_confidence, deal.low_conviction_threshold) THEN "low"
    ELSE "none"

\* the level with the medium comparison reversed
DetermineLevel_MediumReversed(scoring_result, final_confidence, deal) ==
    IF ~scoring_result.passes_hard_filters THEN "none"
    ELSE IF RGe(final_confidence, deal.high_conviction_threshold) THEN "high"
    ELSE IF RLe(final_confidence, deal.medium_conviction_threshold) THEN "medium"
    ELSE IF RGe(final_confidence, deal.low_conviction_threshold) THEN "low"
    ELSE "none"

\* assess_conviction: "Determine conviction level using mandate thresholds"
DetermineLevel(scoring_result, final_confidence, deal) ==
    IF ~scoring_result.passes_hard_filters THEN "none"
    ELSE IF RGe(final_confidence, deal.high_conviction_threshold) THEN "high"
    ELSE IF RGe(final_confidence, deal.medium_conviction_threshold) THEN "medium"
    ELSE IF RGe(final_confidence, deal.low_conviction_threshold) THEN "low"
    ELSE "none"

ConvictionAssessment(listing_id, mandate_id, level, confidence_score, positive_factors, negative_factors, neutral_factors, summary, recommendation) ==
    [listing_id |-> listing_id, mandate_id |-> mandate_id, level |-> level,
     confidence_score |-> confidence_score, positive_factors |-> positive_factors,
     negative_factors |-> negative_factors, neutral_factors |-> neutral_factors,
     summary |-> summary, recommendation |-> recommendation]

\* lines 433-478 of assess_conviction: the confidence and level of the
\* collected factors
ConvictionOfFactors(l, m, scoring_result, all_factors) ==
    LET deal == m.deal_criteria
        positive == SelectSeq(all_factors, LAMBDA f : f.met /\ RGe(f.weight, Rat(10, 100)))
        negative == SelectSeq(all_factors, LAMBDA f : ~f.met)
        neutral == SelectSeq(all_factors, LAMBDA f : f.met /\ RLt(f.weight, Rat(10, 100)))
        weight_sum == RSum([i \in DOMAIN all_factors |-> all_factors[i].weight])
        total_weight == IF weight_sum.n = 0 THEN Float(1) ELSE weight_sum
        met == SelectSeq(all_factors, LAMBDA f : f.met)
        met_weight == RSum([i \in DOMAIN met |-> met[i].weight])
        confidence_score == RDiv(met_weight, total_weight)
        final_confidence ==
            IF scoring_result.passes_hard_filters
            THEN RAdd(RMul(RDiv(scoring_result.total_score, Float(100)), Rat(7, 10)),
                      RMul(confidence_score, Rat(3, 10)))
            ELSE RMul(confidence_score, Rat(3, 10))
        level == DetermineLevel(scoring_result, final_confidence, deal)
    IN ConvictionAssessment(l.listing_id, m.mandate_id, level, final_confidence,
                            positive, negative, neutral,
                            _generate_summary(level, positive, negative, scoring_result),
                            _generate_recommendation(level, l, m))

assess_conviction(l, m, scoring_result) ==
    ConvictionOfFactors(l, m, scoring_result,
        _assess_price_conviction(l, m, scoring_result)
        \o _assess_yield_conviction(l, m, scoring_result)
        \o _assess_location_conviction(l, m, scoring_result)
        \o _assess_property_conviction(l, m, scoring_result)
        \o _assess_risk_conviction(l, m, scoring_result))

(***************************************************************************)
(* planning/models.py, planning/feasibility.py                             *)
(*                                                                         *)
(* A text built by an f-string is the tuple of its parts; property_type,   *)
(* tenure and listed_grade are sequences of characters because the code    *)
(* lowers, uppers and searches them.  The in-place list arguments of the   *)
(* _assess_* helpers travel with the score in one record.                  *)
(***************************************************************************)
PrecedentType ==
    {"extension_rear", "extension_side", "extension_loft", "extension_basement",
     "conversion_residential", "conversion_hmo", "conversion_flats", "change_of_use",
     "new_build", "demolition_rebuild", "subdivision", "permitted_development", "other"}

LowerChar(c) ==
    CASE c = "F" -> "f"
      [] c = "H" -> "h"
      [] c = "L" -> "l"
      [] OTHER -> c

\* str.lower()
lower(s) == [i \in 1..Len(s) |-> LowerChar(s[i])]

\* `sub in s` for strings
Contains(s, sub) ==
    \E k \in 0..(Len(s) - Len(sub)) : \A i \in 1..Len(sub) : s[k + i] = sub[i]

FLAT == <<"f", "l", "a", "t">>

MAISONETTE == <<"m", "a", "i", "s", "o", "n", "e", "t", "t", "e">>

HOUSE == <<"h", "o", "u", "s", "e">>

BUNGALOW == <<"b", "u", "n", "g", "a", "l", "o", "w">>

TERRACED == <<"t", "e", "r", "r", "a", "c", "e", "d">>

FREEHOLD == <<"f", "r", "e", "e", "h", "o", "l", "d">>

LEASEHOLD == <<"l", "e", "a", "s", "e", "h", "o", "l", "d">>

\* context.listed_grade.upper() if context.listed_grade else "II"
ListedGrade(context) ==
    IF context.listed_grade # <<>> THEN upper(context.listed_grade) ELSE <<"I", "I">>

FeasibilityResult(score, positive_factors, negative_factors, neutral_factors, blockers, recommendations) ==
    [score |-> score, positive_factors |-> positive_factors,
     negative_factors |-> negative_factors, neutral_factors |-> neutral_factors,
     blockers |-> blockers, recommendations |-> recommendations]

_assess_listed_building(context, r) ==
    IF ~context.listed_building
    THEN [r EXCEPT !.score = @ + 5,
                   !.positive_factors = Append(@, <<"listed_building",
                        <<"Property is not listed - no heritage constraints">> >>)]
    ELSE IF ListedGrade(context) = <<"I">>
    THEN [r EXCEPT !.score = @ - 40,
                   !.blockers = Append(@, <<"Grade I listed building - development extremely unlikely">>),
                   !.negative_factors = Append(@, <<"listed_building",
                        <<"Grade I listed building - highest level of protection">> >>),
                   !.recommendations = Append(@, <<"Grade I listing: Consult Historic England">>)]
    ELSE IF ListedGrade(context) = <<"I", "I", "*">>
    THEN [r EXCEPT !.score = @ - 25,
                   !.negative_factors = Append(@, <<"listed_building",
                        <<"Grade II* listed building - significant heritage constraints">> >>),
                   !.recommendations = Append(@, <<"Grade II* listing: Listed Building Consent">>)]
    ELSE [r EXCEPT !.score = @ - 15,
                   !.negative_factors = Append(@, <<"listed_building",
                        <<"Grade II listed building - heritage constraints apply">> >>),
                   !.recommendations = Append(@, <<"Grade II listing: Consult conservation officer">>)]

_assess_conservation_area(context, r) ==
    IF ~context.conservation_area
    THEN [r EXCEPT !.score = @ + 3,
                   !.positive_factors = Append(@, <<"conservation_area",
                        <<"Not in conservation area - standard planning rules apply">> >>)]
    ELSE [r EXCEPT !.score = @ - 10,
                   !.negative_factors = Append(@, <<"conservation_area",
                        <<"Located in conservation area - design must preserve character">> >>),
                   !.recommendations = Append(@, <<"Conservation area: Pre-application advice">>)]

_assess_green_belt(context, r) ==
    LET neg == Append(r.negative_factors, <<"green_belt",
                   <<"Property in Green Belt - very limited development potential">> >>)
    IN IF ~context.green_belt THEN r
       ELSE IF context.proposed_type \in {"new_build", "demolition_rebuild", "subdivision"}
       THEN [r EXCEPT !.score = @ - 40, !.negative_factors = neg,
                      !.blockers = Append(@, <<"Green Belt location: New buildings are inappropriate development">>)]
       ELSE IF context.proposed_type \in {"extension_rear", "extension_side", "extension_loft"}
       THEN [r EXCEPT !.score = @ - 20, !.negative_factors = neg,
                      !.recommendations = Append(@, <<"Green Belt: Limited extensions may be acceptable">>)]
       ELSE [r EXCEPT !.score = @ - 25, !.negative_factors = neg,
                      !.recommendations = Append(@, <<"Green Belt: very special circumstances">>)]

_assess_flood_zone(context, r) ==
    IF context.flood_zone = 1
    THEN [r EXCEPT !.score = @ + 2,
                   !.positive_factors = Append(@, <<"flood_zone",
                        <<"Flood Zone 1 - lowest flood risk">> >>)]
    ELSE IF context.flood_zone = 2
    THEN [r EXCEPT !.score = @ - 5,
                   !.neutral_factors = Append(@, <<"flood_zone",
                        <<"Flood Zone 2 - medium flood risk, may need FRA">> >>),
                   !.recommendations = Append(@, <<"Flood Zone 2: Flood Risk Assessment">>)]
    ELSE [r EXCEPT !.score = @ - 15,
                   !.negative_factors = Append(@, <<"flood_zone",
                        <<"Flood Zone 3 - high flood risk, Sequential Test required">> >>),
                   !.recommendations = Append(@, <<"Flood Zone 3: Sequential and Exception Tests">>)]

_assess_article_4(context, r) ==
    IF ~context.article_4_direction THEN r
    ELSE [r EXCEPT !.score = @ - 10,
                   !.negative_factors = Append(@, <<"article_4_direction",
                        <<"Article 4 Direction in place - permitted development rights removed">> >>),
                   !.recommendations = Append(@, <<"Article 4: Planning permission required">>)]

_assess_tpo(context, r) ==
    IF ~context.tree_preservation_orders THEN r
    ELSE [r EXCEPT !.score = @ - 5,
                   !.negative_factors = Append(@, <<"tree_preservation_orders",
                        <<"Tree Preservation Orders on site may constrain development">> >>),
                   !.recommendations = Append(@, <<"TPO: Arboricultural survey recommended">>)]

_assess_property_type(context, r) ==
    LET prop_type == lower(Val(context.property_type))
        proposed == context.proposed_type
    IN IF /\ Contains(prop_type, HOUSE) \/ Contains(prop_type, BUNGALOW)
          /\ proposed \in {"extension_loft", "extension_rear", "extension_side"}
       THEN [r EXCEPT !.score = @ + 5,
                      !.positive_factors = Append(@, <<"property_type",
                           <<"House/bungalow suitable for extension works">> >>)]
       ELSE IF /\ prop_type = FLAT
               /\ proposed \in {"extension_loft", "extension_rear", "extension_side",
                                "extension_basement"}
       THEN [r EXCEPT !.score = @ - 15,
                      !.negative_factors = Append(@, <<"property_type",
                           <<"Flat - limited scope for physical extension">> >>),
                      !.recommendations = Append(@, <<"Flat: Extensions typically not possible">>)]
       ELSE IF Contains(prop_type, TERRACED) /\ proposed = "extension_side"
       THEN [r EXCEPT !.score = @ - 20,
                      !.negative_factors = Append(@, <<"property_type",
                           <<"Terraced property - no scope for side extension">> >>)]
       ELSE [r EXCEPT !.neutral_factors = Append(@, <<"property_type",
                           <<"Property type: ", prop_type>> >>)]

_assess_tenure(context, r) ==
    LET tenure == lower(Val(context.tenure))
    IN IF tenure = FREEHOLD
       THEN [r EXCEPT !.score = @ + 3,
                      !.positive_factors = Append(@, <<"tenure",
                           <<"Freehold - full control over development decisions">> >>)]
       ELSE IF tenure = LEASEHOLD
       THEN [r EXCEPT !.score = @ - 10,
                      !.negative_factors = Append(@, <<"tenure",
                           <<"Leasehold - freeholder consent required for alterations">> >>),
                      !.recommendations = Append(@, <<"Leasehold: Check lease terms">>)]
       ELSE [r EXCEPT !.neutral_factors = Append(@, <<"tenure", <<"Tenure not specified">> >>)]

_assess_plot_size(context, r) ==
    LET plot_size == context.plot_size_sqft
        current_sqft == context.current_sqft
        ratio == Rat(Val(current_sqft), Val(plot_size))
        percent == Str(Fmt0(RMul(ratio, Float(100))))
        absolute ==
            IF Val(plot_size) > 5000
            THEN [r EXCEPT !.score = @ + 5,
                           !.positive_factors = Append(@, <<"plot_size",
                                <<"Large plot (", Str(Val(plot_size)),
                                  " sqft) offers development flexibility">> >>)]
            ELSE IF Val(plot_size) < 1000
            THEN [r EXCEPT !.score = @ - 3,
                           !.neutral_factors = Append(@, <<"plot_size",
                                <<"Compact plot (", Str(Val(plot_size)), " sqft)">> >>)]
            ELSE r
    IN IF ~TruthyInt(plot_size)
       THEN [r EXCEPT !.neutral_factors = Append(@, <<"plot_size", <<"Plot size unknown">> >>)]
       ELSE IF TruthyInt(current_sqft) /\ RLt(ratio, Rat(3, 10))
       THEN [r EXCEPT !.score = @ + 10,
                      !.positive_factors = Append(@, <<"plot_size",
                           <<"Large plot relative to building (", percent,
                             " coverage) - good extension potential">> >>)]
       ELSE IF TruthyInt(current_sqft) /\ RGt(ratio, Rat(6, 10))
       THEN [r EXCEPT !.score = @ - 10,
                      !.negative_factors = Append(@, <<"plot_size",
                           <<"High plot coverage (", percent,
                             ") - limited room for extension">> >>),
                      !.recommendations = Append(@, <<"High plot coverage: Loft conversion or basement">>)]
       ELSE absolute

_assess_pd_rights(context, r) ==
    LET has_pd_rights ==
            /\ ~context.listed_building
            /\ ~context.article_4_direction
            /\ lower(Val(context.property_type)) \notin {FLAT, MAISONETTE}
    IN IF has_pd_rights
          /\ context.proposed_type \in {"extension_rear", "extension_loft", "permitted_development"}
       THEN [r EXCEPT !.score = @ + 8,
                      !.positive_factors = Append(@, <<"permitted_development_rights",
                           <<"Permitted development rights may apply - check limits">> >>),
                      !.recommendations = Append(@, <<"PD rights: Verify with council">>)]
       ELSE r

\* None.lower() raises AttributeError
FeasibilityRaises(context) == context.property_type = None \/ context.tenure = None

\* the assessment without the cap for blockers
assess_feasibility_NoBlockerCap(context) ==
    LET r0 == FeasibilityResult(70, <<>>, <<>>, <<>>, <<>>, <<>>)
        r1 == _assess_listed_building(context, r0)
        r2 == _assess_conservation_area(context, r1)
        r3 == _assess_green_belt(context, r2)
        r4 == _assess_flood_zone(context, r3)
        r5 == _assess_article_4(context, r4)
        r6 == _assess_tpo(context, r5)
        r7 == _assess_property_type(context, r6)
        r8 == _assess_tenure(context, r7)
        r9 == _assess_plot_size(context, r8)
        r10 == _assess_pd_rights(context, r9)
        clamped == IF r10.score > 100 THEN 100 ELSE IF r10.score < 0 THEN 0 ELSE r10.score
        capped == IF r10.blockers # <<>> /\ clamped > 20 THEN 20 ELSE clamped
    IN IF FeasibilityRaises(context) THEN Raised("AttributeError")
       ELSE [r10 EXCEPT !.score = clamped]

\* the assessment with the cap applied whether or not a blocker was found
assess_feasibility_AlwaysCapped(context) ==
    LET r0 == FeasibilityResult(70, <<>>, <<>>, <<>>, <<>>, <<>>)
        r1 == _assess_listed_building(context, r0)
        r2 == _assess_conservation_area(context, r1)
        r3 == _assess_green_belt(context, r2)
        r4 == _assess_flood_zone(context, r3)
        r5 == _assess_article_4(context, r4)
        r6 == _assess_tpo(context, r5)
        r7 == _assess_property_type(context, r6)
        r8 == _assess_tenure(context, r7)
        r9 == _assess_plot_size(context, r8)
        r10 == _assess_pd_rights(context, r9)
        clamped == IF r10.score > 100 THEN 100 ELSE IF r10.score < 0 THEN 0 ELSE r10.score
        capped == IF clamped > 20 THEN 20 ELSE clamped
    IN IF FeasibilityRaises(context) THEN Raised("AttributeError")
       ELSE [r10 EXCEPT !.score = capped]

assess_feasibility(context) ==
    LET r0 == FeasibilityResult(70, <<>>, <<>>, <<>>, <<>>, <<>>)
        r1 == _assess_listed_building(context, r0)
        r2 == _assess_conservation_area(context, r1)
        r3 == _assess_green_belt(context, r2)
        r4 == _assess_flood_zone(context, r3)
        r5 == _assess_article_4(context, r4)
        r6 == _assess_tpo(context, r5)
        r7 == _assess_property_type(context, r6)
        r8 == _assess_tenure(context, r7)
        r9 == _assess_plot_size(context, r8)
        r10 == _assess_pd_rights(context, r9)
        clamped == IF r10.score > 100 THEN 100 ELSE IF r10.score < 0 THEN 0 ELSE r10.score
        capped == IF r10.blockers # <<>> /\ clamped > 20 THEN 20 ELSE clamped
    IN IF FeasibilityRaises(context) THEN Raised("AttributeError")
       ELSE [r10 EXCEPT !.score = capped]

(***************************************************************************)
(* planning/precedent.py                                                   *)
(*                                                                         *)
(* A precedent carries the age of its decision in days (None when it has   *)
(* no decision_date), its distance in metres and its similarity; the       *)
(* modelled precedents carry no conditions and no refusal reasons.         *)
(***************************************************************************)
MIN_SIMILARITY_THRESHOLD == Rat(3, 10)

PlanningPrecedent(precedent_type, approved, decision_age_days, distance_meters, similarity_score) ==
    [precedent_type |-> precedent_type, approved |-> approved,
     decision_age_days |-> decision_age_days, distance_meters |-> distance_meters,
     similarity_score |-> similarity_score]

\* delta.days / 365.25
recency_years(self) ==
    IF self.decision_age_days = None THEN None
    ELSE Some(Rat(Val(self.decision_age_days) * 100, 36525))

_calculate_relevance(precedent, type_match) ==
    LET s0 == precedent.similarity_score
        s1 == IF type_match THEN RMul(s0, Rat(3, 2)) ELSE s0
        recency_factor == RMax(Float(0), RSub(Float(1), RDiv(Val(recency_years(precedent)),
                                                              Float(10))))
        s2 == IF recency_years(precedent) # None
              THEN RMul(s1, RAdd(Rat(1, 2), RMul(Rat(1, 2), recency_factor)))
              ELSE s1
        distance_factor == RMax(Float(0), RSub(Float(1), RDiv(Val(precedent.distance_meters),
                                                               Float(1000))))
    IN IF precedent.distance_meters # None
       THEN RMul(s2, RAdd(Rat(1, 2), RMul(Rat(1, 2), distance_factor)))
       ELSE s2

\* insertion of one (precedent, relevance) pair into a list sorted by relevance descending,
\* behind the pairs of equal relevance: list.sort(reverse=True) is stable
RECURSIVE InsertByRelevance(_, _)
InsertByRelevance(sorted, pair) ==
    IF sorted = <<>> THEN <<pair>>
    ELSE IF RLt(Head(sorted)[2], pair[2]) THEN <<pair>> \o sorted
    ELSE <<Head(sorted)>> \o InsertByRelevance(Tail(sorted), pair)

RECURSIVE SortByRelevance(_, _)
SortByRelevance(pairs, sorted) ==
    IF pairs = <<>> THEN sorted
    ELSE SortByRelevance(Tail(pairs), InsertByRelevance(sorted, Head(pairs)))

IsRelevant(context, precedent, min_similarity) ==
    /\ ~RLt(precedent.similarity_score, min_similarity)
    /\ ~(TruthyFloat(recency_years(precedent)) /\ RGt(Val(recency_years(precedent)), Float(10)))
    /\ ~(TruthyFloat(precedent.distance_meters) /\ RGt(Val(precedent.distance_meters), Float(1000)))

\* return [p for p, _ in relevant]
Precedents(relevant) == [i \in DOMAIN relevant |-> relevant[i][1]]

get_relevant_precedents(context, min_similarity) ==
    LET kept == SelectSeq(context.nearby_precedents,
                          LAMBDA p : IsRelevant(context, p, min_similarity))
        relevant == [i \in DOMAIN kept |->
                        <<kept[i], _calculate_relevance(kept[i],
                                       kept[i].precedent_type = context.proposed_type)>>]
    IN Precedents(SortByRelevance(relevant, <<>>))

RecentWithin(p, years) ==
    TruthyFloat(recency_years(p)) /\ RLe(Val(recency_years(p)), Float(years))

_generate_insights(context, relevant, approved, refused, approval_rate) ==
    LET rate == Str(Fmt0(approval_rate))
        type_matches == SelectSeq(relevant, LAMBDA p : p.precedent_type = context.proposed_type)
        type_approved == Len(SelectSeq(type_matches, LAMBDA p : p.approved))
        recent == SelectSeq(relevant, LAMBDA p : RecentWithin(p, 2))
        recent_approved == Len(SelectSeq(recent, LAMBDA p : p.approved))
    IN <<IF RGe(approval_rate, Float(80)) THEN <<"High approval rate (", rate, "%)">>
         ELSE IF RGe(approval_rate, Float(60)) THEN <<"Moderate approval rate (", rate, "%)">>
         ELSE IF RGe(approval_rate, Float(40)) THEN <<"Mixed approval rate (", rate, "%)">>
         ELSE <<"Low approval rate (", rate, "%)">> >>
       \o (IF type_matches # <<>>
           THEN << <<"Found ", Str(Len(type_matches)), " precedents for ", context.proposed_type,
                     " applications, ", Str(type_approved), " approved.">> >>
           ELSE <<>>)
       \o (IF recent # <<>> /\ recent_approved = Len(recent)
           THEN << <<"All ", Str(Len(recent)), " recent applications (last 2 years) were approved">> >>
           ELSE IF recent # <<>> /\ recent_approved = 0
           THEN << <<"All ", Str(Len(recent)), " recent applications were refused">> >>
           ELSE <<>>)

\* lines 104-161 of analyze_precedents: the statistics of the relevant precedents
AnalysisOfRelevant(context, relevant) ==
    LET approved == SelectSeq(relevant, LAMBDA p : p.approved)
        refused == SelectSeq(relevant, LAMBDA p : ~p.approved)
        approval_rate == RMul(Rat(Len(approved), Len(relevant)), Float(100))
        Recent(p) == recency_years(p) # None /\ RLe(Val(recency_years(p)), Float(3))
    IN IF relevant = <<>>
       THEN [approval_rate |-> None, recent_approvals |-> 0, recent_refusals |-> 0,
             insights |-> << <<"No relevant planning precedents found in the area.">> >>]
       ELSE [approval_rate |-> Some(approval_rate),
             recent_approvals |-> Len(SelectSeq(approved, Recent)),
             recent_refusals |-> Len(SelectSeq(refused, Recent)),
             insights |-> _generate_insights(context, relevant, approved, refused, approval_rate)]

analyze_precedents(context) ==
    AnalysisOfRelevant(context, get_relevant_precedents(context, MIN_SIMILARITY_THRESHOLD))

Min(a, b) == IF a < b THEN a ELSE b

Max(a, b) == IF a > b THEN a ELSE b

\* lines 271-316 of calculate_precedent_score: the score of the relevant precedents
ScoreOfRelevant(context, relevant) ==
    LET approved_count == Len(SelectSeq(relevant, LAMBDA p : p.approved))
        approval_rate == Rat(approved_count, Len(relevant))
        base_score == Trunc(RMul(approval_rate, Float(60)))
        type_matches == SelectSeq(relevant, LAMBDA p :
                            p.precedent_type = context.proposed_type /\ p.approved)
        recent_approvals == SelectSeq(relevant, LAMBDA p : p.approved /\ RecentWithin(p, 3))
        recent_refusals == SelectSeq(relevant, LAMBDA p : ~p.approved /\ RecentWithin(p, 3))
        close_approvals == SelectSeq(relevant, LAMBDA p :
                            /\ p.approved /\ TruthyFloat(p.distance_meters)
                            /\ RLe(Val(p.distance_meters), Float(100)))
        total == base_score
                 + Min(20, Len(type_matches) * 5)
                 + Min(15, Len(recent_approvals) * 3)
                 - Min(20, Len(recent_refusals) * 5)
                 + Min(10, Len(close_approvals) * 5)
    IN IF relevant = <<>> THEN 50 ELSE Max(0, Min(100, total))

calculate_precedent_score(context) ==
    ScoreOfRelevant(context, get_relevant_precedents(context, MIN_SIMILARITY_THRESHOLD))

(***************************************************************************)
(* planning/uplift.py, planning/score.py                                   *)
(***************************************************************************)
UPLIFT_RANGES ==
    [t \in PrecedentType |->
        CASE t = "extension_rear" -> <<5, 10, 15>>
          [] t = "extension_side" -> <<8, 12, 18>>
          [] t = "extension_loft" -> <<10, 15, 22>>
          [] t = "extension_basement" -> <<12, 20, 30>>
          [] t = "conversion_residential" -> <<15, 25, 40>>
          [] t = "conversion_hmo" -> <<20, 35, 50>>
          [] t = "conversion_flats" -> <<25, 40, 60>>
          [] t = "change_of_use" -> <<10, 20, 35>>
          [] t = "new_build" -> <<30, 50, 80>>
          [] t = "demolition_rebuild" -> <<25, 45, 70>>
          [] t = "subdivision" -> <<20, 35, 55>>
          [] t = "permitted_development" -> <<5, 8, 12>>
          [] t = "other" -> <<3, 7, 12>>]

CONSTRAINT_MODIFIERS ==
    [listed_building |-> Rat(-5, 10), listed_grade_1 |-> Rat(-8, 10),
     listed_grade_2_star |-> Rat(-6, 10), conservation_area |-> Rat(-2, 10),
     green_belt |-> Rat(-4, 10), article_4 |-> Rat(-15, 100),
     flood_zone_3 |-> Rat(-25, 100), leasehold |-> Rat(-1, 10)]

POSITIVE_MODIFIERS ==
    [large_plot |-> Rat(15, 100), pd_rights |-> Rat(1, 10), freehold |-> Rat(5, 100),
     high_precedent_approval |-> Rat(1, 10)]

\* round(x, 1)
Round1(a) == Rat(Fmt0(RMul(a, Float(10))), 10)

UpliftEstimate(percent_low, percent_mid, percent_high, value_low, value_mid, value_high, confidence, assumptions, caveats) ==
    [percent_low |-> percent_low, percent_mid |-> percent_mid, percent_high |-> percent_high,
     value_low |-> value_low, value_mid |-> value_mid, value_high |-> value_high,
     confidence |-> confidence, assumptions |-> assumptions, caveats |-> caveats]

_calculate_confidence(context, precedent_approval_rate) ==
    LET rate == precedent_approval_rate
        score == 50
                 + (IF TruthyFloat(rate) /\ RGe(Val(rate), Float(80)) THEN 20
                    ELSE IF TruthyFloat(rate) /\ RGe(Val(rate), Float(60)) THEN 10 ELSE 0)
                 + (IF context.proposed_type = "permitted_development" THEN 15 ELSE 0)
                 + (IF lower(Val(context.tenure)) = FREEHOLD THEN 5 ELSE 0)
                 - (IF context.listed_building THEN 20 ELSE 0)
                 - (IF context.green_belt THEN 15 ELSE 0)
                 - (IF context.nearby_precedents = <<>> THEN 10 ELSE 0)
    IN IF score >= 65 THEN "high" ELSE IF score >= 40 THEN "medium" ELSE "low"

\* the (modifier, assumption, caveat) steps of estimate_uplift, in source order
UpliftSteps(context, precedent_approval_rate) ==
    LET grade == ListedGrade(context)
        tenure == lower(Val(context.tenure))
        has_pd_rights ==
            /\ ~context.listed_building
            /\ ~context.article_4_direction
            /\ lower(Val(context.property_type)) \notin {FLAT, MAISONETTE}
            /\ context.proposed_type \in {"extension_rear", "extension_loft",
                                          "permitted_development"}
        Caveat(cond, modifier, text) ==
            IF cond THEN << [modifier |-> modifier, caveat |-> <<text>>, assumption |-> <<>>] >>
            ELSE <<>>
        Assumption(cond, modifier, text) ==
            IF cond THEN << [modifier |-> modifier, caveat |-> <<>>, assumption |-> <<text>>] >>
            ELSE <<>>
    IN Caveat(context.listed_building /\ grade = <<"I">>, CONSTRAINT_MODIFIERS.listed_grade_1,
              "Grade I listing severely limits development scope")
       \o Caveat(context.listed_building /\ grade = <<"I", "I", "*">>,
                 CONSTRAINT_MODIFIERS.listed_grade_2_star,
                 "Grade II* listing significantly constrains works")
       \o Caveat(context.listed_building /\ grade \notin {<<"I">>, <<"I", "I", "*">>},
                 CONSTRAINT_MODIFIERS.listed_building,
                 "Listed building status limits alteration scope")
       \o Caveat(context.conservation_area, CONSTRAINT_MODIFIERS.conservation_area,
                 "Conservation area requires sympathetic design")
       \o Caveat(context.green_belt, CONSTRAINT_MODIFIERS.green_belt,
                 "Green Belt severely restricts development")
       \o Caveat(context.article_4_direction, CONSTRAINT_MODIFIERS.article_4,
                 "Article 4 removes permitted development rights")
       \o Caveat(context.flood_zone = 3, CONSTRAINT_MODIFIERS.flood_zone_3,
                 "Flood Zone 3 adds cost and complexity")
       \o Caveat(tenure = LEASEHOLD, CONSTRAINT_MODIFIERS.leasehold,
                 "Leasehold: freeholder may share in uplift")
       \o Assumption(TruthyInt(context.plot_size_sqft) /\ Val(context.plot_size_sqft) > 5000,
                     POSITIVE_MODIFIERS.large_plot,
                     "Large plot provides development flexibility")
       \o Assumption(tenure = FREEHOLD, POSITIVE_MODIFIERS.freehold,
                     "Freehold ownership gives full control")
       \o Assumption(has_pd_rights, POSITIVE_MODIFIERS.pd_rights,
                     "Permitted development may reduce planning risk")
       \o Assumption(TruthyFloat(precedent_approval_rate)
                        /\ RGe(Val(precedent_approval_rate), Float(75)),
                     POSITIVE_MODIFIERS.high_precedent_approval,
                     "Strong local precedent for similar developments")

RECURSIVE Flatten(_)
Flatten(xss) == IF xss = <<>> THEN <<>> ELSE Head(xss) \o Flatten(Tail(xss))

\* lines 160-190 of estimate_uplift: the estimate for the floored modifier
UpliftOfModifier(context, current_value, precedent_approval_rate, steps, modifier) ==
    LET base_range == UPLIFT_RANGES[context.proposed_type]
        adjusted_low == RMul(Float(base_range[1]), modifier)
        adjusted_mid == RMul(Float(base_range[2]), modifier)
        adjusted_high == RMul(Float(base_range[3]), modifier)
        Value(adjusted) == Trunc(RDiv(RMul(Float(current_value), adjusted), Float(100)))
    IN UpliftEstimate(Round1(adjusted_low), Round1(adjusted_mid), Round1(adjusted_high),
                      Value(adjusted_low), Value(adjusted_mid), Value(adjusted_high),
                      _calculate_confidence(context, precedent_approval_rate),
                      Flatten([i \in DOMAIN steps |-> steps[i].assumption]),
                      Flatten([i \in DOMAIN steps |-> steps[i].caveat])
                      \o <<"Estimates based on general market assumptions",
                           "Actual uplift depends on quality of execution",
                           "Build costs not deducted from uplift figures",
                           "Market conditions may vary">>)

\* lines 156-158 of estimate_uplift: the sum of the modifiers, floored at 10% of base
UpliftOfSteps(context, current_value, precedent_approval_rate, steps) ==
    UpliftOfModifier(context, current_value, precedent_approval_rate, steps,
        RMax(Rat(1, 10),
             RAdd(Float(1), RSum([i \in DOMAIN steps |-> steps[i].modifier]))))

estimate_uplift(context, current_value, precedent_approval_rate) ==
    UpliftOfSteps(context, current_value, precedent_approval_rate,
                  UpliftSteps(context, precedent_approval_rate))

EXCEPTIONAL_THRESHOLD == 80

STRONG_THRESHOLD == 60

MEDIUM_THRESHOLD == 40

PRECEDENT_WEIGHT == Rat(35, 100)

FEASIBILITY_WEIGHT == Rat(40, 100)

UPLIFT_WEIGHT == Rat(25, 100)

PlanningScore(score, label, precedent_score, feasibility_score, uplift_score) ==
    [score |-> score, label |-> label, precedent_score |-> precedent_score,
     feasibility_score |-> feasibility_score, uplift_score |-> uplift_score]

calculate_planning_score(precedent_score, feasibility_score, uplift_percent_mid) ==
    LET uplift_score ==
            Min(100, Trunc(RMul(RDiv(uplift_percent_mid, Float(30)), Float(100))))
        weighted_score ==
            RAdd(RAdd(RMul(Float(precedent_score), PRECEDENT_WEIGHT),
                      RMul(Float(feasibility_score), FEASIBILITY_WEIGHT)),
                 RMul(Float(uplift_score), UPLIFT_WEIGHT))
        overall_score == Trunc(weighted_score)
        label == IF overall_score >= EXCEPTIONAL_THRESHOLD THEN "exceptional"
                 ELSE IF overall_score >= STRONG_THRESHOLD THEN "strong"
                 ELSE IF overall_score >= MEDIUM_THRESHOLD THEN "medium"
                 ELSE "low"
    IN PlanningScore(overall_score, label, precedent_score, feasibility_score, uplift_score)

\* label.value.upper()
UpperLabel(label) ==
    CASE label = "exceptional" -> "EXCEPTIONAL"
      [] label = "strong" -> "STRONG"
      [] label = "medium" -> "MEDIUM"
      [] label = "low" -> "LOW"

_build_rationale(planning_score, precedent_analysis, feasibility_result, uplift_estimate, context) ==
    LET approval_rate == precedent_analysis.approval_rate
    IN << <<"Overall planning potential assessed as ", UpperLabel(planning_score.label), " (",
            Str(planning_score.score), "/100).">> >>
       \o (IF approval_rate # None
           THEN << <<"Precedent analysis: ", Str(Fmt0(Val(approval_rate))), "% approval rate (",
                     Str(precedent_analysis.recent_approvals), " recent approvals, ",
                     Str(precedent_analysis.recent_refusals), " refusals).">> >>
           ELSE << <<"No relevant planning precedents found in provided data.">> >>)
       \o FirstN(precedent_analysis.insights, 2)
       \o (IF feasibility_result.blockers # <<>>
           THEN << <<"IMPORTANT: ", Str(Len(feasibility_result.blockers)),
                     " significant constraint(s) identified that may block development.">> >>
           ELSE << <<"Feasibility score: ", Str(feasibility_result.score),
                     "/100 based on property constraints.">> >>)
       \o << <<"Estimated uplift: ", Str(Fmt0(uplift_estimate.percent_low)), "%-",
               Str(Fmt0(uplift_estimate.percent_high)), "% (", uplift_estimate.confidence,
               " confidence).">> >>
       \o (IF uplift_estimate.value_mid > 0
           THEN << <<"Potential value add: ", Str(uplift_estimate.value_low), "-",
                     Str(uplift_estimate.value_high), " GBP.">> >>
           ELSE <<>>)

DISCLAIMER == "This assessment is indicative only"

PlanningAssessment(planning_score, uplift_estimate, rationale, positive_factors, negative_factors, recommendations) ==
    [planning_score |-> planning_score, uplift_estimate |-> uplift_estimate,
     rationale |-> rationale, positive_factors |-> positive_factors,
     negative_factors |-> negative_factors, recommendations |-> recommendations,
     disclaimer |-> DISCLAIMER]

\* the blockers added after the other negative factors instead of before them
RECURSIVE InsertBlockers_Append(_, _)
InsertBlockers_Append(blockers, negative_factors) ==
    IF blockers = <<>> THEN negative_factors
    ELSE InsertBlockers_Append(Tail(blockers),
                               negative_factors \o << <<"BLOCKER: ">> \o Head(blockers) >>)

\* negative_factors.insert(0, f"BLOCKER: {blocker}") for each blocker in turn
RECURSIVE InsertBlockers(_, _)
InsertBlockers(blockers, negative_factors) ==
    IF blockers = <<>> THEN negative_factors
    ELSE InsertBlockers(Tail(blockers), << <<"BLOCKER: ">> \o Head(blockers) >> \o negative_factors)

\* lines 120-192 of get_planning_assessment: the rationale, factors and
\* recommendations of the computed components
AssessmentOfScore(context, precedent_analysis, feasibility_result, uplift_estimate, planning_score) ==
    LET approval_rate == precedent_analysis.approval_rate
        Descriptions(fs) == [i \in DOMAIN fs |-> fs[i][2]]
        positive_factors ==
            Descriptions(feasibility_result.positive_factors)
            \o (IF TruthyFloat(approval_rate) /\ RGe(Val(approval_rate), Float(70))
                THEN << <<"High local approval rate (", Str(Fmt0(Val(approval_rate))), "%)">> >>
                ELSE <<>>)
            \o (IF RGe(uplift_estimate.percent_mid, Float(20))
                THEN << <<"Strong uplift potential (", Str(Fmt0(uplift_estimate.percent_mid)),
                          "%)">> >>
                ELSE <<>>)
        negative_factors ==
            InsertBlockers(feasibility_result.blockers,
                Descriptions(feasibility_result.negative_factors)
                \o (IF /\ ~(TruthyFloat(approval_rate) /\ RGe(Val(approval_rate), Float(70)))
                       /\ TruthyFloat(approval_rate) /\ RLt(Val(approval_rate), Float(40))
                    THEN << <<"Low local approval rate (", Str(Fmt0(Val(approval_rate))),
                              "%)">> >>
                    ELSE <<>>))
        recommendations ==
            feasibility_result.recommendations
            \o <<IF planning_score.score >= EXCEPTIONAL_THRESHOLD
                 THEN <<"Strong planning potential - consider engaging planning consultant">>
                 ELSE IF planning_score.score >= STRONG_THRESHOLD
                 THEN <<"Good planning potential - research local plan policies">>
                 ELSE IF planning_score.score >= MEDIUM_THRESHOLD
                 THEN <<"Moderate planning potential - thorough due diligence recommended">>
                 ELSE <<"Limited planning potential - factor into valuation">> >>
    IN PlanningAssessment(planning_score, uplift_estimate,
                          _build_rationale(planning_score, precedent_analysis,
                                           feasibility_result, uplift_estimate, context),
                          FirstN(positive_factors, 5), FirstN(negative_factors, 5),
                          FirstN(recommendations, 5))

\* lines 113-118 of get_planning_assessment: the overall score
AssessmentOfUplift(context, precedent_analysis, precedent_score, feasibility_result, uplift_estimate) ==
    AssessmentOfScore(context, precedent_analysis, feasibility_result, uplift_estimate,
        calculate_planning_score(precedent_score, feasibility_result.score,
                                 uplift_estimate.percent_mid))

\* lines 101-111 of get_planning_assessment: an exception of assess_feasibility
\* leaves the call; otherwise the uplift is estimated with the approval rate
AssessmentOfComponents(context, current_value, precedent_analysis, precedent_score, feasibility_result) ==
    IF IsRaised(feasibility_result) THEN feasibility_result
    ELSE AssessmentOfUplift(context, precedent_analysis, precedent_score, feasibility_result,
             estimate_uplift(context, current_value, precedent_analysis.approval_rate))

get_planning_assessment(context, current_value) ==
    AssessmentOfComponents(context, current_value, analyze_precedents(context),
                           calculate_precedent_score(context), assess_feasibility(context))

(***************************************************************************)
(* core/recommendation.py                                                  *)
(***************************************************************************)
RecommendationAction == {"pursue", "consider", "watch", "pass"}

DealRecommendation(listing_id, mandate_id, action, priority_rank, scoring, conviction, rejection, headline, rationale, next_steps, risks, planning) ==
    [listing_id |-> listing_id, mandate_id |-> mandate_id, action |-> action,
     priority_rank |-> priority_rank, scoring |-> scoring, conviction |-> conviction,
     rejection |-> rejection, headline |-> headline, rationale |-> rationale,
     next_steps |-> next_steps, risks |-> risks, planning |-> planning]

\* mutant: MEDIUM conviction needs the consider threshold as HIGH does
_determine_action_MediumNeedsScore(scoring, conviction, rejection, m) ==
    LET deal == m.deal_criteria
    IN IF rejection.rejected THEN "pass"
       ELSE IF conviction.level = "high" /\ RGe(scoring.total_score, deal.pursue_score_threshold)
       THEN "pursue"
       ELSE IF /\ conviction.level \in {"medium", "high"}
               /\ RGe(scoring.total_score, deal.consider_score_threshold)
       THEN "consider"
       ELSE IF /\ conviction.level = "low" /\ scoring.passes_hard_filters
               /\ RGe(scoring.total_score, deal.min_overall_score)
       THEN "watch"
       ELSE "pass"

_determine_action(scoring, conviction, rejection, m) ==
    LET deal == m.deal_criteria
    IN IF rejection.rejected THEN "pass"
       ELSE IF conviction.level = "high" /\ RGe(scoring.total_score, deal.pursue_score_threshold)
       THEN "pursue"
       ELSE IF conviction.level = "medium" THEN "consider"
       ELSE IF conviction.level = "high" /\ RGe(scoring.total_score, deal.consider_score_threshold)
       THEN "consider"
       ELSE IF /\ conviction.level = "low" /\ scoring.passes_hard_filters
               /\ RGe(scoring.total_score, deal.min_overall_score)
       THEN "watch"
       ELSE "pass"

\* mutant: the score band is rounded to the nearest ten instead of truncated
_calculate_priority_RoundedBand(action, scoring, conviction, m) ==
    LET base == CASE action = "pursue" -> 1 [] action = "consider" -> 2
                  [] action = "watch" -> 3 [] OTHER -> 4
        score_adjustment == Fmt0(RDiv(RSub(Float(100), scoring.total_score), Float(10)))
    IN base * 100 + score_adjustment * 10 + (m.priority - 1)

_calculate_priority(action, scoring, conviction, m) ==
    LET base == CASE action = "pursue" -> 1 [] action = "consider" -> 2
                  [] action = "watch" -> 3 [] OTHER -> 4
        score_adjustment == Trunc(RDiv(RSub(Float(100), scoring.total_score), Float(10)))
        mandate_factor == m.priority - 1
    IN base * 100 + score_adjustment * 10 + mandate_factor

_generate_headline(l, action, scoring, conviction) ==
    IF action = "pursue"
    THEN <<"STRONG MATCH: ", l.title, " (", scoring.match_grade, " grade, ", conviction.level,
           " conviction)">>
    ELSE IF action = "consider"
    THEN <<"REVIEW: ", l.title, " - ", Str(Fmt0(scoring.total_score)), "/100 score, ",
           conviction.level, " conviction">>
    ELSE IF action = "watch"
    THEN <<"MONITOR: ", l.title, " - potential if conditions change">>
    ELSE <<"PASS: ", l.title, " - does not meet criteria">>

\* sep.join(xs) as the tuple of its parts
RECURSIVE Join(_, _)
Join(xs, sep) ==
    IF xs = <<>> THEN <<>>
    ELSE IF Len(xs) = 1 THEN <<Head(xs)>>
    ELSE <<Head(xs), sep>> \o Join(Tail(xs), sep)

Titles(reasons) == [i \in DOMAIN reasons |-> reasons[i].title]

\* mandate is always passed by generate_recommendation, so deal is never None
_generate_rationale(action, scoring, conviction, rejection, m) ==
    LET deal == m.deal_criteria
        score == Str(Fmt0(scoring.total_score))
    IN IF action = "pursue"
       THEN <<"Strong alignment with mandate criteria.", " Score ", score,
              "/100 exceeds pursue threshold (", Str(Fmt0(deal.pursue_score_threshold)), ").",
              " ">>
            \o Join(FactorReasons(FirstN(conviction.positive_factors, 2)), ". ")
       ELSE IF action = "consider"
       THEN conviction.summary
            \o <<" Score ", score, "/100 meets consider threshold (",
                 Str(Fmt0(deal.consider_score_threshold)), ").">>
            \o (IF soft_rejections(rejection) # <<>>
                THEN <<" Concerns to address: ">>
                     \o Join(Titles(FirstN(soft_rejections(rejection), 2)), ", ") \o <<".">>
                ELSE <<>>)
       ELSE IF action = "watch"
       THEN LET negatives == FirstN(conviction.negative_factors, 2)
                threshold_info ==
                    <<" Score ", score, "/100 above minimum (",
                      Str(Fmt0(deal.min_overall_score)), ") but below consider threshold (",
                      Str(Fmt0(deal.consider_score_threshold)), ").">>
            IN IF negatives # <<>>
               THEN <<"Marginal fit.">> \o threshold_info \o <<" Issues: ">>
                    \o Join(FactorReasons(negatives), ". ")
               ELSE <<"Marginal fit with current criteria.">> \o threshold_info
                    \o <<" Monitor for price or condition changes.">>
       ELSE IF hard_rejections(rejection) # <<>>
       THEN <<"Rejected due to: ">>
            \o Join(Titles(FirstN(hard_rejections(rejection), 2)), ", ") \o <<".">>
       ELSE <<"Does not meet minimum mandate criteria.", " Score ", score,
              "/100 below minimum threshold (", Str(Fmt0(deal.min_overall_score)), ").">>

_generate_next_steps(action, l, conviction, rejection) ==
    IF action = "pursue"
    THEN << <<"Request detailed property information pack">>,
            <<"Schedule site visit / virtual tour">>,
            <<"Prepare investment committee memo">> >>
         \o (IF l.property_details.has_tenants
             THEN << <<"Request tenancy schedule and rent roll">> >> ELSE <<>>)
    ELSE IF action = "consider"
    THEN LET soft == FirstN(soft_rejections(rejection), 2)
         IN [i \in DOMAIN soft |-> <<"Investigate: ">> \o soft[i].remedy]
            \o << <<"Gather additional due diligence information">>,
                  <<"Assess if concerns can be mitigated">> >>
    ELSE IF action = "watch"
    THEN << <<"Set price alert for this listing">>,
            <<"Monitor for status changes (price reduction, etc.)">> >>
         \o (IF conviction.negative_factors # <<>>
             THEN << <<"Re-evaluate if market conditions change">> >> ELSE <<>>)
    ELSE <<>>

_generate_risks(l, conviction, rejection) ==
    LET negative == conviction.negative_factors
        soft == soft_rejections(rejection)
    IN FirstN([i \in DOMAIN negative |-> <<negative[i].reason>>]
              \o [i \in DOMAIN soft |-> <<soft[i].title, ": ">> \o soft[i].explanation], 5)

\* neg.startswith("BLOCKER:"): the only texts that begin so are the blocker entries
IsBlockerText(text) == text # <<>> /\ Head(text) = "BLOCKER: "

RECURSIVE AddPlanningRisks(_, _)
AddPlanningRisks(negs, risks) ==
    IF negs = <<>> THEN risks
    ELSE IF IsBlockerText(Head(negs))
    THEN AddPlanningRisks(Tail(negs), << <<"Planning: ">> \o Head(negs) >> \o risks)
    ELSE AddPlanningRisks(Tail(negs), Append(risks, <<"Planning: ">> \o Head(negs)))

_enhance_with_planning(planning, headline, rationale, next_steps, risks, action) ==
    LET score == planning.planning_score
        uplift == planning.uplift_estimate
    IN <<IF score.score >= 70
         THEN headline \o <<" | PLANNING UPSIDE: ", UpperLabel(score.label)>>
         ELSE headline,
         IF score.score >= 60
         THEN rationale \o <<" Planning potential: ", score.label, " (", Str(score.score),
                             "/100) with estimated ", Str(Fmt0(uplift.percent_low)), "%-",
                             Str(Fmt0(uplift.percent_high)), "% uplift.">>
         ELSE rationale,
         IF action \in {"pursue", "consider"} /\ planning.recommendations # <<>>
         THEN Append(next_steps, <<"Planning: ">> \o planning.recommendations[1])
         ELSE next_steps,
         AddPlanningRisks(FirstN(planning.negative_factors, 2), risks)>>

\* lines 364-376 of generate_recommendation: the narrative and the priority
\* after a planning assessment was computed
PlanningEnhancement(planning, headline, rationale, next_steps, risks, action, priority) ==
    LET enhanced == _enhance_with_planning(planning, headline, rationale, next_steps, risks,
                                           action)
    IN [headline |-> enhanced[1], rationale |-> enhanced[2], next_steps |-> enhanced[3],
        risks |-> enhanced[4],
        priority |-> IF planning.planning_score.score >= 70 THEN Max(1, priority - 50)
                     ELSE priority]

\* mutant: an exception of the planning computation is not caught
RecommendationOfAction_PlanningErrorEscapes(l, m, planning_context, scoring, conviction, rejection, action, attempt) ==
    LET priority == _calculate_priority(action, scoring, conviction, m)
        headline == _generate_headline(l, action, scoring, conviction)
        rationale == _generate_rationale(action, scoring, conviction, rejection, m)
        next_steps == _generate_next_steps(action, l, conviction, rejection)
        risks == _generate_risks(l, conviction, rejection)
        e == PlanningEnhancement(attempt, headline, rationale, next_steps, risks, action,
                                 priority)
    IN IF planning_context = None
       THEN DealRecommendation(l.listing_id, m.mandate_id, action, priority, scoring,
                               conviction, rejection, headline, rationale, next_steps, risks,
                               None)
       ELSE IF IsRaised(attempt) THEN attempt
       ELSE DealRecommendation(l.listing_id, m.mandate_id, action, e.priority, scoring,
                               conviction, rejection, e.headline, e.rationale, e.next_steps,
                               e.risks, Some(attempt))

\* mutant: a strong planning assessment promotes a watched deal
RecommendationOfAction_PlanningPromotes(l, m, planning_context, scoring, conviction, rejection, action, attempt) ==
    LET priority == _calculate_priority(action, scoring, conviction, m)
        headline == _generate_headline(l, action, scoring, conviction)
        rationale == _generate_rationale(action, scoring, conviction, rejection, m)
        next_steps == _generate_next_steps(action, l, conviction, rejection)
        risks == _generate_risks(l, conviction, rejection)
        e == PlanningEnhancement(attempt, headline, rationale, next_steps, risks, action,
                                 priority)
        promoted == IF attempt.planning_score.score >= 70 /\ action \in {"watch", "pass"}
                    THEN "consider" ELSE action
    IN IF planning_context = None \/ IsRaised(attempt)
       THEN DealRecommendation(l.listing_id, m.mandate_id, action, priority, scoring,
                               conviction, rejection, headline, rationale, next_steps, risks,
                               None)
       ELSE DealRecommendation(l.listing_id, m.mandate_id, promoted, e.priority, scoring,
                               conviction, rejection, e.headline, e.rationale, e.next_steps,
                               e.risks, Some(attempt))

\* lines 349-394 of generate_recommendation: the priority, the narrative and
\* the planning block.  attempt is the outcome of get_planning_assessment, read
\* only when a planning context was given; an exception of the planning
\* computation is caught and the recommendation built without it.
RecommendationOfAction(l, m, planning_context, scoring, conviction, rejection, action, attempt) ==
    LET priority == _calculate_priority(action, scoring, conviction, m)
        headline == _generate_headline(l, action, scoring, conviction)
        rationale == _generate_rationale(action, scoring, conviction, rejection, m)
        next_steps == _generate_next_steps(action, l, conviction, rejection)
        risks == _generate_risks(l, conviction, rejection)
        e == PlanningEnhancement(attempt, headline, rationale, next_steps, risks, action,
                                 priority)
    IN IF planning_context = None \/ IsRaised(attempt)
       THEN DealRecommendation(l.listing_id, m.mandate_id, action, priority, scoring,
                               conviction, rejection, headline, rationale, next_steps, risks,
                               None)
       ELSE DealRecommendation(l.listing_id, m.mandate_id, action, e.priority, scoring,
                               conviction, rejection, e.headline, e.rationale, e.next_steps,
                               e.risks, Some(attempt))

\* lines 347-348 and 359-362 of generate_recommendation: the action of the three
\* analyses and the planning assessment
RecommendationOfAnalyses(l, m, planning_context, scoring, conviction, rejection) ==
    RecommendationOfAction(l, m, planning_context, scoring, conviction, rejection,
        _determine_action(scoring, conviction, rejection, m),
        get_planning_assessment(Val(planning_context), l.financial.asking_price))

\* lines 343-345 of generate_recommendation: an exception of score_listing is
\* raised to the caller
RecommendationOfScoring(l, m, planning_context, scoring) ==
    IF IsRaised(scoring) THEN scoring
    ELSE RecommendationOfAnalyses(l, m, planning_context, scoring,
             assess_conviction(l, m, scoring), evaluate_rejection(l, m, None, FALSE))

\* PLANNING_AVAILABLE is True: deal_engine.planning is part of the package
generate_recommendation(l, m, planning_context) ==
    RecommendationOfScoring(l, m, planning_context, score_listing(l, m, None))

(***************************************************************************)
(* SpecEval: the inputs.  A listing or mandate differs from the base one   *)
(* in at most MaxListingDeviation / MaxMandateDeviation of its choices.    *)
(***************************************************************************)
MaxListingDeviation == 2

MaxMandateDeviation == 1

SW1A_1AA == <<"S", "W", "1", "A", " ", "1", "A", "A">>

ListingChoice ==
    [asset_class : {"residential", "commercial"},
     tenure : {<<"freehold", None>>, <<"leasehold", Some(70)>>, <<"leasehold", Some(90)>>},
     address : {[region |-> "London", postcode |-> SW1A_1AA],
                [region |-> "London", postcode |-> <<"s", "w", "1", "a", " ", "1", "a", "a">>],
                [region |-> "Wales", postcode |-> <<"C", "F", "1", "0", " ", "1", "A", "A">>],
                [region |-> "Wales", postcode |-> <<>>],
                [region |-> "Scotland", postcode |-> <<"E", "H", "1", " ", "1", "A", "A">>]},
     asking_price : {300000, 400000, 2750000, 6000000, 8500000},
     gross_yield : {None, Some(Float(0)), Some(Rat(5, 2)), Some(Float(3)), Some(Float(7))},
     current_rent : {None, Some(110000)},
     price_per_sqft : {None, Some(Float(450))},
     unit_count : {1, 3},
     condition : {"turnkey", "light_refurb", "development", "unknown"},
     has_tenants : BOOLEAN]

BaseListing ==
    [asset_class |-> "residential", tenure |-> <<"freehold", None>>,
     address |-> [region |-> "London", postcode |-> SW1A_1AA],
     asking_price |-> 2750000, gross_yield |-> Some(Float(7)), current_rent |-> None,
     price_per_sqft |-> None, unit_count |-> 3, condition |-> "turnkey",
     has_tenants |-> FALSE]

Deviation(choice, base) == Cardinality({f \in DOMAIN base : choice[f] # base[f]})

\* Listing(...): the dataclasses of core/listing.py
Listing(c) ==
    [listing_id |-> "L1", title |-> "Property", asset_class |-> c.asset_class,
     tenure |-> c.tenure[1], address |-> c.address,
     financial |-> [asking_price |-> c.asking_price, current_rent |-> c.current_rent,
                    gross_yield |-> c.gross_yield, price_per_sqft |-> c.price_per_sqft,
                    lease_years_remaining |-> c.tenure[2]],
     property_details |-> [unit_count |-> c.unit_count, total_sqft |-> None,
                           condition |-> c.condition, has_tenants |-> c.has_tenants]]

Listings ==
    {Listing(c) : c \in {d \in ListingChoice : Deviation(d, BaseListing) <= MaxListingDeviation}}

GeographicCriteria(regions, postcodes, exclude_regions, exclude_postcodes) ==
    [regions |-> regions, postcodes |-> postcodes, exclude_regions |-> exclude_regions,
     exclude_postcodes |-> exclude_postcodes]

PropertyCriteria(min_units, max_units, accept_development, freehold_only, min_lease_years) ==
    [min_units |-> min_units, max_units |-> max_units, min_sqft |-> None, max_sqft |-> None,
     accept_refurbishment |-> TRUE,
     accept_development |-> accept_development, accept_turnkey |-> TRUE,
     freehold_only |-> freehold_only, min_lease_years |-> min_lease_years]

DealCriteria(min_overall_score, pursue_score_threshold, consider_score_threshold, high_conviction_threshold, medium_conviction_threshold, low_conviction_threshold) ==
    [min_overall_score |-> min_overall_score,
     pursue_score_threshold |-> pursue_score_threshold,
     consider_score_threshold |-> consider_score_threshold,
     high_conviction_threshold |-> high_conviction_threshold,
     medium_conviction_threshold |-> medium_conviction_threshold,
     low_conviction_threshold |-> low_conviction_threshold]

\* DealCriteria(): the defaults of the dataclass
DefaultDealCriteria ==
    DealCriteria(Float(40), Float(75), Float(60), Rat(80, 100), Rat(60, 100), Rat(40, 100))

\* ScoringWeights(): the defaults of the dataclass
DefaultScoringWeights == DEFAULT_WEIGHTS

\* weights that count price and yield only
PriceYieldWeights ==
    [w \in WeightNames |->
        IF w \in {"price_range", "yield_minimum"} THEN Rat(1, 2) ELSE Float(0)]

TargetedGeography ==
    GeographicCriteria(<<"London">>, << <<"s", "w", "1">> >>, <<"Scotland">>, << <<"E", "H">> >>)

MandateChoice ==
    [asset_classes : {<<"residential">>, <<>>, <<"commercial", "industrial">>},
     geographic : {TargetedGeography,
                   GeographicCriteria(<<>>, <<>>, <<>>, <<>>),
                   GeographicCriteria(<<>>, <<>>, <<"London">>, <<>>)},
     deal_size : {<<Some(500000), Some(5000000)>>, <<None, None>>, <<None, Some(0)>>,
                  <<Some(2750000), Some(2750000)>>},
     yield : {<<Some(Float(5)), Some(Float(7))>>, <<None, None>>, <<Some(Float(5)), None>>},
     max_price_psf : {None, Some(Float(500))},
     property : {PropertyCriteria(None, None, FALSE, FALSE, None),
                 PropertyCriteria(None, None, FALSE, TRUE, None),
                 PropertyCriteria(None, None, TRUE, FALSE, Some(80)),
                 PropertyCriteria(Some(2), Some(10), FALSE, FALSE, None)},
     deal_criteria : {DefaultDealCriteria,
                      DealCriteria(Float(20), Float(60), Float(40),
                                   Rat(60, 100), Rat(40, 100), Rat(20, 100)),
                      DealCriteria(Float(40), Float(95), Float(60),
                                   Rat(80, 100), Rat(60, 100), Rat(40, 100)),
                      DealCriteria(Float(70), Float(95), Float(90),
                                   Rat(80, 100), Rat(60, 100), Rat(40, 100))},
     scoring_weights : {DefaultScoringWeights, PriceYieldWeights},
     risk_profile : {"core_plus", "core"},
     priority : {1, 3, 10}]

BaseMandate ==
    [asset_classes |-> <<"residential">>, geographic |-> TargetedGeography,
     deal_size |-> <<Some(500000), Some(5000000)>>,
     yield |-> <<Some(Float(5)), Some(Float(7))>>, max_price_psf |-> None,
     property |-> PropertyCriteria(None, None, FALSE, FALSE, None),
     deal_criteria |-> DefaultDealCriteria, scoring_weights |-> DefaultScoringWeights,
     risk_profile |-> "core_plus", priority |-> 1]

\* Mandate(...): the dataclasses of core/mandate.py
Mandate(c) ==
    [mandate_id |-> "M1", asset_classes |-> c.asset_classes, risk_profile |-> c.risk_profile,
     geographic |-> c.geographic,
     financial |-> [min_deal_size |-> c.deal_size[1], max_deal_size |-> c.deal_size[2],
                    min_yield |-> c.yield[1], target_yield |-> c.yield[2],
                    max_price_psf |-> c.max_price_psf],
     property |-> c.property, deal_criteria |-> c.deal_criteria,
     scoring_weights |-> c.scoring_weights, priority |-> c.priority]

Mandates ==
    {Mandate(c) : c \in {d \in MandateChoice : Deviation(d, BaseMandate) <= MaxMandateDeviation}}

\* PlanningContext(...) with the dataclass defaults for the fields not given
PlanningContext(property_type, tenure, listed_building, listed_grade, green_belt, proposed_type, nearby_precedents) ==
    [property_type |-> property_type, tenure |-> tenure, current_sqft |-> None,
     plot_size_sqft |-> None, conservation_area |-> FALSE,
     listed_building |-> listed_building, listed_grade |-> listed_grade,
     article_4_direction |-> FALSE, green_belt |-> green_belt, flood_zone |-> 1,
     tree_preservation_orders |-> FALSE, nearby_precedents |-> nearby_precedents,
     proposed_type |-> proposed_type]

HOUSE_TERRACED == HOUSE \o <<"_">> \o TERRACED

RearExtensionApproved ==
    PlanningPrecedent("extension_rear", TRUE, Some(487), Some(Float(50)), Rat(8, 10))

\* the planning_context argument: absent, or one of these contexts; a context
\* read from a record with a null tenure or property_type holds None there
PlanningContexts ==
    {None,
     Some(PlanningContext(Some(HOUSE_TERRACED), Some(FREEHOLD), FALSE, <<>>, FALSE,
                          "extension_rear", <<RearExtensionApproved, RearExtensionApproved>>)),
     Some(PlanningContext(Some(HOUSE_TERRACED), Some(FREEHOLD), FALSE, <<>>, FALSE,
                          "extension_rear", <<>>)),
     Some(PlanningContext(Some(<<"F", "l", "a", "t">>), Some(LEASEHOLD), TRUE, <<"I">>, TRUE,
                          "new_build", <<>>)),
     Some(PlanningContext(Some(HOUSE_TERRACED), None, FALSE, <<>>, FALSE,
                          "extension_rear", <<>>)),
     Some(PlanningContext(None, Some(FREEHOLD), FALSE, <<>>, FALSE, "other", <<>>))}

(***************************************************************************)
(* SpecEval: one call of an evaluation function on the listing and the     *)
(* mandate; result records the call and what it returned                   *)
(***************************************************************************)
InitEval ==
    /\ review = DealReview(0)
    /\ clock = 0
    /\ lastCall = NoCall
    /\ queue = {}
    /\ threads = [t \in Threads |-> IdleThread]
    /\ listing \in Listings
    /\ mandate \in Mandates
    /\ result = NoEvaluation

\* evaluate_rejection(listing, mandate, stop_on_hard=...)
EvaluateRejection ==
    \E stop_on_hard \in BOOLEAN :
        /\ result = NoEvaluation
        /\ result' = [op |-> "evaluate_rejection", stop_on_hard |-> stop_on_hard,
                      value |-> evaluate_rejection(listing, mandate, None, stop_on_hard)]
        /\ UNCHANGED <<listing, mandate>>
        /\ UNCHANGED reviewVars

\* generate_recommendation(listing, mandate, planning_context)
GenerateRecommendation ==
    \E planning_context \in PlanningContexts :
        /\ result = NoEvaluation
        /\ result' = [op |-> "generate_recommendation", planning_context |-> planning_context,
                      value |-> generate_recommendation(listing, mandate, planning_context)]
        /\ UNCHANGED <<listing, mandate>>
        /\ UNCHANGED reviewVars

NextEval ==
    \/ EvaluateRejection
    \/ GenerateRecommendation

SpecEval == InitEval /\ [][NextEval]_vars

(***************************************************************************)
(* Claims about the evaluation pipeline (SpecEval)                         *)
(***************************************************************************)
Recommended == result.op = "generate_recommendation" /\ ~IsRaised(result.value)

\* the first-match table of the recommendation action
ActionTable(rejected, level, score, deal) ==
    IF rejected THEN "pass"
    ELSE IF level = "high" /\ RGe(score, deal.pursue_score_threshold) THEN "pursue"
    ELSE IF level = "medium" \/ (level = "high" /\ RGe(score, deal.consider_score_threshold))
    THEN "consider"
    ELSE IF level = "low" /\ RGe(score, deal.min_overall_score) THEN "watch"
    ELSE "pass"

\* C5: the action of a recommendation is the entry of the first-match table
\* for (rejection.rejected, conviction.level, scoring.total_score,
\* mandate.deal_criteria) and depends on nothing else, so two evaluations that
\* agree on these four values get the same action.
C5_ActionByTable ==
    Recommended =>
        result.value.action = ActionTable(result.value.rejection.rejected,
                                          result.value.conviction.level,
                                          result.value.scoring.total_score,
                                          mandate.deal_criteria)

\* a LOW conviction whose score reaches the minimum is watched
C5_Witness ==
    /\ Recommended
    /\ result.value.conviction.level = "low"
    /\ RGe(result.value.scoring.total_score, mandate.deal_criteria.min_overall_score)
    /\ result.value.action = "watch"

\* the planning computation was reached and raised
PlanningRaised ==
    /\ result.op = "generate_recommendation"
    /\ result.planning_context # None
    /\ ~IsRaised(score_listing(listing, mandate, None))
    /\ IsRaised(get_planning_assessment(Val(result.planning_context),
                                        listing.financial.asking_price))

WithoutPlanning == generate_recommendation(listing, mandate, None)

\* C6: when the planning computation raises, generate_recommendation returns a
\* recommendation without a planning component whose action, priority_rank,
\* headline, rationale, next_steps and risks are those of the call without a
\* planning context.
C6_PlanningFailureDegrades ==
    PlanningRaised =>
        /\ ~IsRaised(result.value)
        /\ result.value.planning = None
        /\ result.value.action = WithoutPlanning.action
        /\ result.value.priority_rank = WithoutPlanning.priority_rank
        /\ result.value.headline = WithoutPlanning.headline
        /\ result.value.rationale = WithoutPlanning.rationale
        /\ result.value.next_steps = WithoutPlanning.next_steps
        /\ result.value.risks = WithoutPlanning.risks

\* a recommendation was returned although the planning computation raised
C6_Witness ==
    /\ PlanningRaised
    /\ ~IsRaised(result.value)
    /\ result.value.planning = None
    /\ result.value.action = "pursue"

\* C7: a planning context changes neither the action nor the ScoringResult,
\* ConvictionAssessment or RejectionResult of a recommendation: they equal
\* those of the call without a planning context (and the call raises with a
\* context exactly when it raises without one).
C7_PlanningLeavesAnalysis ==
    result.op = "generate_recommendation" =>
        /\ IsRaised(result.value) <=> IsRaised(WithoutPlanning)
        /\ ~IsRaised(result.value) =>
              /\ result.value.action = WithoutPlanning.action
              /\ result.value.scoring = WithoutPlanning.scoring
              /\ result.value.conviction = WithoutPlanning.conviction
              /\ result.value.rejection = WithoutPlanning.rejection

\* a planning assessment was merged into a recommendation that is not pursued:
\* its priority and headline changed, its action did not
C7_Witness ==
    /\ Recommended
    /\ result.value.planning # None
    /\ Val(result.value.planning).planning_score.score >= 70
    /\ result.value.action \in {"watch", "pass"}
    /\ result.value.action = WithoutPlanning.action
    /\ result.value.priority_rank # WithoutPlanning.priority_rank
    /\ result.value.headline # WithoutPlanning.headline

ActionRank(action) ==
    CASE action = "pursue" -> 1
      [] action = "consider" -> 2
      [] action = "watch" -> 3
      [] action = "pass" -> 4

\* floor(x) of a rational
Floor(a) == a.n \div a.d

\* 100*actionRank + 10*floor((100 - score)/10) + (mandate priority - 1)
RankFormula(action, score, priority) ==
    100 * ActionRank(action) + 10 * Floor(RDiv(RSub(Float(100), score), Float(10)))
    + (priority - 1)

Boosted(v) == v.planning # None /\ Val(v.planning).planning_score.score >= 70

FullReasons(l, m) ==
    Flatten([i \in DOMAIN REJECTION_RULES |-> ApplyRule(REJECTION_RULES[i], l, m)])

HasHard(reasons) == \E i \in DOMAIN reasons : reasons[i].severity = "hard"

\* the prefix of reasons that ends at its first HARD reason (all of it if none)
PrefixToFirstHard(reasons) ==
    IF HasHard(reasons)
    THEN SubSeq(reasons, 1, CHOOSE i \in DOMAIN reasons :
                                /\ reasons[i].severity = "hard"
                                /\ \A j \in 1..(i - 1) : reasons[j].severity # "hard")
    ELSE reasons

\* C9: stop_on_hard only truncates: with either value of stop_on_hard the
\* rejected flag is true exactly when the full ordered reason list holds a
\* HARD reason; without stop_on_hard the reasons are the full list, with it
\* they are the prefix of the full list that ends at its first HARD reason.
C9_StopOnHardTruncates ==
    result.op = "evaluate_rejection" =>
        LET full == FullReasons(listing, mandate)
        IN /\ result.value.rejected = HasHard(full)
           /\ result.value.reasons =
                  IF result.stop_on_hard THEN PrefixToFirstHard(full) ELSE full

\* a stopped evaluation that left out reasons behind the first HARD one
C9_Witness ==
    /\ result.op = "evaluate_rejection"
    /\ result.stop_on_hard
    /\ result.value.rejected
    /\ Len(result.value.reasons) < Len(FullReasons(listing, mandate))
    /\ result.value.reasons[Len(result.value.reasons)].severity = "hard"

ReasonWith(reasons, code, severity) ==
    \E i \in DOMAIN reasons : reasons[i].code = code /\ reasons[i].severity = severity

\* C10: every listing priced above max_deal_size gets a PRICE_EXCEEDS_MAX
\* reason, HARD when the excess is more than 20% of the maximum and SOFT
\* otherwise; every listing whose stated gross yield is below min_yield gets a
\* YIELD_BELOW_MIN reason, HARD when the shortfall is more than 2 percentage
\* points and SOFT otherwise; a listing priced more than 20% above the maximum
\* ends with action PASS.
C10_SeverityFollowsData ==
    LET price == listing.financial.asking_price
        max_size == mandate.financial.max_deal_size
        stated == listing.financial.gross_yield
        min_yield == mandate.financial.min_yield
        over == max_size # None /\ price > Val(max_size)
        far_over == over /\ 5 * (price - Val(max_size)) > Val(max_size)
        below == stated # None /\ min_yield # None /\ RLt(Val(stated), Val(min_yield))
        far_below == below /\ RGt(RSub(Val(min_yield), Val(stated)), Float(2))
    IN /\ (result.op = "evaluate_rejection" /\ ~result.stop_on_hard) =>
              /\ over => ReasonWith(result.value.reasons, "PRICE_EXCEEDS_MAX",
                                    IF far_over THEN "hard" ELSE "soft")
              /\ below => ReasonWith(result.value.reasons, "YIELD_BELOW_MIN",
                                     IF far_below THEN "hard" ELSE "soft")
       /\ (Recommended /\ far_over) => result.value.action = "pass"

(***************************************************************************)
(* core/filtering.py: the hard filters.  A filter returns the pair         *)
(* (passed, reason); the empty reason "" is the empty text <<>>            *)
(***************************************************************************)
FilterResult(l, passed, failed_filters) ==
    [listing |-> l, passed |-> passed, failed_filters |-> failed_filters]

filter_by_asset_class(l, m) ==
    IF accepts_asset_class(m, l.asset_class) THEN <<TRUE, <<>>>>
    ELSE <<FALSE, <<"Asset class not in mandate", l.asset_class>>>>

filter_by_location(l, m) ==
    LET geo == m.geographic
        area == postcode_area(l.address)
        region_ok == geo.regions = <<>> \/ In(l.address.region, geo.regions)
        postcode_ok == geo.postcodes = <<>> \/ AnyPrefix(upper(area), geo.postcodes)
    IN IF In(l.address.region, geo.exclude_regions)
       THEN <<FALSE, <<"Region excluded", l.address.region>>>>
       ELSE IF AnyPrefix(upper(area), geo.exclude_postcodes)
       THEN <<FALSE, <<"Postcode excluded", Str(area)>>>>
       ELSE IF geo.regions = <<>> /\ geo.postcodes = <<>> THEN <<TRUE, <<>>>>
       ELSE IF region_ok \/ postcode_ok THEN <<TRUE, <<>>>>
       ELSE <<FALSE, <<"Location not in mandate criteria", l.address.region, Str(area)>>>>

filter_by_price(l, m) ==
    LET fin == m.financial
        price == l.financial.asking_price
    IN IF TruthyInt(fin.min_deal_size) /\ price < Val(fin.min_deal_size)
       THEN <<FALSE, <<"Price below minimum", Str(price), Str(Val(fin.min_deal_size))>>>>
       ELSE IF TruthyInt(fin.max_deal_size) /\ price > Val(fin.max_deal_size)
       THEN <<FALSE, <<"Price above maximum", Str(price), Str(Val(fin.max_deal_size))>>>>
       ELSE <<TRUE, <<>>>>

filter_by_yield(l, m) ==
    LET fin == m.financial
        listing_yield == gross_yield(l)
    IN IF ~TruthyFloat(fin.min_yield) THEN <<TRUE, <<>>>>
       ELSE IF listing_yield = None THEN <<TRUE, <<>>>>
       ELSE IF RLt(Val(listing_yield), Val(fin.min_yield))
       THEN <<FALSE, <<"Yield below minimum", Str(Round1(Val(listing_yield))),
                       Str(Round1(Val(fin.min_yield)))>>>>
       ELSE <<TRUE, <<>>>>

filter_by_tenure(l, m) ==
    LET prop == m.property
        remaining == l.financial.lease_years_remaining
    IN IF prop.freehold_only /\ l.tenure \notin {"freehold", "share_of_freehold"}
       THEN <<FALSE, <<"Freehold required but property is leasehold">>>>
       ELSE IF /\ TruthyInt(prop.min_lease_years) /\ l.tenure = "leasehold"
               /\ remaining # None /\ Val(remaining) < Val(prop.min_lease_years)
       THEN <<FALSE, <<"Lease below minimum", Str(Val(remaining)),
                       Str(Val(prop.min_lease_years))>>>>
       ELSE <<TRUE, <<>>>>

filter_by_units(l, m) ==
    LET prop == m.property
        units == l.property_details.unit_count
    IN IF TruthyInt(prop.min_units) /\ units < Val(prop.min_units)
       THEN <<FALSE, <<"Unit count below minimum", Str(units), Str(Val(prop.min_units))>>>>
       ELSE IF TruthyInt(prop.max_units) /\ units > Val(prop.max_units)
       THEN <<FALSE, <<"Unit count above maximum", Str(units), Str(Val(prop.max_units))>>>>
       ELSE <<TRUE, <<>>>>

filter_by_sqft(l, m) ==
    LET prop == m.property
        sqft == l.property_details.total_sqft
    IN IF sqft = None THEN <<TRUE, <<>>>>
       ELSE IF TruthyInt(prop.min_sqft) /\ Val(sqft) < Val(prop.min_sqft)
       THEN <<FALSE, <<"Size below minimum", Str(Val(sqft)), Str(Val(prop.min_sqft))>>>>
       ELSE IF TruthyInt(prop.max_sqft) /\ Val(sqft) > Val(prop.max_sqft)
       THEN <<FALSE, <<"Size above maximum", Str(Val(sqft)), Str(Val(prop.max_sqft))>>>>
       ELSE <<TRUE, <<>>>>

filter_by_condition(l, m) ==
    LET prop == m.property
        condition == l.property_details.condition
    IN IF condition = "development" /\ ~prop.accept_development
       THEN <<FALSE, <<"Development opportunities not accepted">>>>
       ELSE IF condition \in {"light_refurb", "heavy_refurb"} /\ ~prop.accept_refurbishment
       THEN <<FALSE, <<"Refurbishment opportunities not accepted">>>>
       ELSE IF condition = "turnkey" /\ ~prop.accept_turnkey
       THEN <<FALSE, <<"Turnkey properties not accepted">>>>
       ELSE <<TRUE, <<>>>>

\* the default filter chain, by function name
DEFAULT_FILTERS ==
    <<"filter_by_asset_class", "filter_by_location", "filter_by_price", "filter_by_yield",
      "filter_by_tenure", "filter_by_units", "filter_by_sqft", "filter_by_condition">>

\* filter_fn(listing, mandate)
ApplyFilter(filter_fn, l, m) ==
    CASE filter_fn = "filter_by_asset_class" -> filter_by_asset_class(l, m)
      [] filter_fn = "filter_by_location" -> filter_by_location(l, m)
      [] filter_fn = "filter_by_price" -> filter_by_price(l, m)
      [] filter_fn = "filter_by_yield" -> filter_by_yield(l, m)
      [] filter_fn = "filter_by_tenure" -> filter_by_tenure(l, m)
      [] filter_fn = "filter_by_units" -> filter_by_units(l, m)
      [] filter_fn = "filter_by_sqft" -> filter_by_sqft(l, m)
      [] filter_fn = "filter_by_condition" -> filter_by_condition(l, m)

RECURSIVE FilterLoop_BreakBeforeAppend(_, _, _, _, _, _)
\* the loop leaving a fail-fast run before it records the failure
FilterLoop_BreakBeforeAppend(l, m, active_filters, fail_fast, i, failed_filters) ==
    IF i > Len(active_filters) THEN failed_filters
    ELSE LET outcome == ApplyFilter(active_filters[i], l, m)
         IN IF outcome[1]
            THEN FilterLoop_BreakBeforeAppend(l, m, active_filters, fail_fast, i + 1,
                                              failed_filters)
            ELSE IF fail_fast THEN failed_filters
            ELSE FilterLoop_BreakBeforeAppend(l, m, active_filters, fail_fast, i + 1,
                                              Append(failed_filters, outcome[2]))

RECURSIVE FilterLoop(_, _, _, _, _, _)
\* the loop of filter_listing from filter i on: append the reason of a failed
\* filter, and break after the append when fail_fast
FilterLoop(l, m, active_filters, fail_fast, i, failed_filters) ==
    IF i > Len(active_filters) THEN failed_filters
    ELSE LET outcome == ApplyFilter(active_filters[i], l, m)
         IN IF outcome[1]
            THEN FilterLoop(l, m, active_filters, fail_fast, i + 1, failed_filters)
            ELSE IF fail_fast THEN Append(failed_filters, outcome[2])
            ELSE FilterLoop(l, m, active_filters, fail_fast, i + 1,
                            Append(failed_filters, outcome[2]))

\* FilterResult of the collected failures
FilterResultOf(l, failed_filters) == FilterResult(l, Len(failed_filters) = 0, failed_filters)

\* filter_listing(listing, mandate, filters=None, fail_fast=True);
\* "filters or DEFAULT_FILTERS": None and the empty list both select the default chain
filter_listing(l, m, filters, fail_fast) ==
    FilterResultOf(l, FilterLoop(l, m, IF filters = None \/ Val(filters) = <<>>
                                       THEN DEFAULT_FILTERS ELSE Val(filters),
                                 fail_fast, 1, <<>>))

\* the listings of a batch whose result passed, in batch order
PassedOf(results) == SelectSeq([i \in DOMAIN results |-> results[i]], LAMBDA r : r.passed)

\* filter_listings(listings, mandate, filters=None): fail-fast per listing
filter_listings(listings, m, filters) ==
    LET results == [i \in DOMAIN listings |-> filter_listing(listings[i], m, filters, TRUE)]
        passed == PassedOf(results)
    IN [i \in DOMAIN passed |-> passed[i].listing]

\* filter_listings_detailed(listings, mandate, filters=None): (passed, results)
DetailedOf(results) == <<[i \in 1..Len(PassedOf(results)) |-> PassedOf(results)[i].listing], results>>

filter_listings_detailed(listings, m, filters) ==
    DetailedOf([i \in DOMAIN listings |-> filter_listing(listings[i], m, filters, FALSE)])

(***************************************************************************)
(* SpecFilter: one call of the hard filters on a listing (or on a batch    *)
(* holding it) and a mandate                                               *)
(***************************************************************************)
\* listings that differ in what the filters read, with and without a floor area
FilterListingInputs ==
    {[l EXCEPT !.property_details.total_sqft = sqft] :
        l \in {x \in Listings : ~x.property_details.has_tenants /\ x.financial.price_per_sqft = None},
        sqft \in {None, Some(1200)}}

\* what the filters read of a mandate beyond the evaluation's mandates
FilterMandateExtras ==
    {[sqft |-> <<None, None>>, accept_turnkey |-> TRUE, exclude_postcodes |-> <<>>],
     [sqft |-> <<Some(1500), Some(0)>>, accept_turnkey |-> TRUE, exclude_postcodes |-> <<>>],
     [sqft |-> <<None, Some(1000)>>, accept_turnkey |-> TRUE, exclude_postcodes |-> <<>>],
     [sqft |-> <<None, None>>, accept_turnkey |-> FALSE, exclude_postcodes |-> <<>>],
     [sqft |-> <<None, None>>, accept_turnkey |-> TRUE,
      exclude_postcodes |-> <<<<"s", "w", "1">>>>]}

FilterMandateInputs ==
    {[m EXCEPT !.property.min_sqft = x.sqft[1], !.property.max_sqft = x.sqft[2],
               !.property.accept_turnkey = x.accept_turnkey,
               !.geographic.exclude_postcodes = x.exclude_postcodes] :
        m \in {y \in Mandates : /\ y.deal_criteria = DefaultDealCriteria
                                /\ y.scoring_weights = DefaultScoringWeights
                                /\ y.risk_profile = "core_plus" /\ y.priority = 1
                                /\ y.financial.max_price_psf = None},
        x \in FilterMandateExtras}

\* the filters argument: absent, empty, or a custom chain in another order
FilterArguments ==
    {None, Some(<<>>), Some(<<"filter_by_condition", "filter_by_price", "filter_by_location">>)}

\* the batch a listing is filtered in: between two fixed listings, and twice
Batch(l) == <<Listing(BaseListing), l, Listing([BaseListing EXCEPT !.asset_class = "commercial"]), l>>

InitFilter ==
    /\ review = DealReview(0)
    /\ clock = 0
    /\ lastCall = NoCall
    /\ queue = {}
    /\ threads = [t \in Threads |-> IdleThread]
    /\ listing \in FilterListingInputs
    /\ mandate \in FilterMandateInputs
    /\ result = NoEvaluation

\* filter_listing(listing, mandate, filters, fail_fast)
FilterListing ==
    \E filters \in FilterArguments, fail_fast \in BOOLEAN :
        /\ result = NoEvaluation
        /\ result' = [op |-> "filter_listing", filters |-> filters, fail_fast |-> fail_fast,
                      value |-> filter_listing(listing, mandate, filters, fail_fast)]
        /\ UNCHANGED <<listing, mandate>>
        /\ UNCHANGED reviewVars

\* filter_listings(listings, mandate, filters)
FilterListings ==
    \E filters \in FilterArguments :
        /\ result = NoEvaluation
        /\ result' = [op |-> "filter_listings", filters |-> filters, listings |-> Batch(listing),
                      value |-> filter_listings(Batch(listing), mandate, filters)]
        /\ UNCHANGED <<listing, mandate>>
        /\ UNCHANGED reviewVars

\* filter_listings_detailed(listings, mandate, filters)
FilterListingsDetailed ==
    \E filters \in FilterArguments :
        /\ result = NoEvaluation
        /\ result' = [op |-> "filter_listings_detailed", filters |-> filters,
                      listings |-> Batch(listing),
                      value |-> filter_listings_detailed(Batch(listing), mandate, filters)]
        /\ UNCHANGED <<listing, mandate>>
        /\ UNCHANGED reviewVars

NextFilter ==
    \/ FilterListing
    \/ FilterListings
    \/ FilterListingsDetailed

SpecFilter == InitFilter /\ [][NextFilter]_vars

(***************************************************************************)
(* Claims about the hard filters (SpecFilter)                              *)
(***************************************************************************)
\* the failure a fail-fast run reports, given the failures of the exhaustive run
FirstOf(failed_filters) == IF failed_filters = <<>> THEN <<>> ELSE <<failed_filters[1]>>

\* a fail-fast result against the exhaustive result of the same call
FailFastAgrees(fast, detailed) ==
    /\ fast.passed <=> (Len(detailed.failed_filters) = 0)
    /\ fast.failed_filters = FirstOf(detailed.failed_filters)
    /\ fast.listing = detailed.listing

\* C11: a fail-fast filter_listing reports passed exactly when the exhaustive
\* run of the same listing, mandate and filters reports no failed filter, and
\* the one failure it reports is the first failure of the exhaustive run;
\* filter_listings returns the listings, in order, that
\* filter_listings_detailed returns as passed
C11_FailFastEquivalence ==
    /\ result.op = "filter_listing" =>
           FailFastAgrees(IF result.fail_fast THEN result.value
                          ELSE filter_listing(listing, mandate, result.filters, TRUE),
                          IF result.fail_fast
                          THEN filter_listing(listing, mandate, result.filters, FALSE)
                          ELSE result.value)
    /\ result.op = "filter_listings" =>
           result.value = filter_listings_detailed(result.listings, mandate, result.filters)[1]
    /\ result.op = "filter_listings_detailed" =>
           /\ result.value[1] = filter_listings(result.listings, mandate, result.filters)
           /\ \A i \in DOMAIN result.value[2] :
                  FailFastAgrees(filter_listing(result.listings[i], mandate, result.filters, TRUE),
                                 result.value[2][i])

\* a fail-fast run that stopped at the first of at least three failures
C11_Witness ==
    /\ result.op = "filter_listing"
    /\ result.fail_fast
    /\ ~result.value.passed
    /\ Len(result.value.failed_filters) = 1
    /\ Len(filter_listing(listing, mandate, result.filters, FALSE).failed_filters) >= 3

(***************************************************************************)
(* SpecScore: one call of score_listing on a listing and a mandate, with   *)
(* or without an explicit weights override                                 *)
(***************************************************************************)
\* asking prices at the ends, the midpoint and a quarter of the base deal-size range
RangePrices == {500000, 1625000, 2750000, 5000000}

ScoreListingInputs ==
    Listings \cup {[l EXCEPT !.financial.asking_price = p] :
                       l \in {x \in Listings : x.financial.asking_price = 2750000},
                       p \in RangePrices}

\* the weights argument: absent, an empty dict, a partial dict, a full dict
PartialOverride == [k \in {"price_range", "location_region"} |-> Rat(1, 2)]

FullOverride ==
    [k \in WeightNames |-> IF k \in {"risk_profile", "property_tenure"} THEN Float(0)
                           ELSE IF k = "yield_target" THEN Float(2) ELSE Rat(1, 10)]

WeightOverrides == {None, Some(<<>>), Some(PartialOverride), Some(FullOverride)}

\* conviction thresholds out of order (high < medium < low) and all equal
MisorderedDealCriteria ==
    {DealCriteria(Float(40), Float(75), Float(60), Rat(40, 100), Rat(60, 100), Rat(80, 100)),
     DealCriteria(Float(40), Float(75), Float(60), Rat(60, 100), Rat(60, 100), Rat(60, 100)),
     DealCriteria(Float(40), Float(75), Float(60), Rat(90, 100), Rat(30, 100), Rat(70, 100))}

ScoreMandateInputs ==
    Mandates \cup {Mandate([BaseMandate EXCEPT !.deal_criteria = d]) : d \in MisorderedDealCriteria}
             \cup {Mandate([BaseMandate EXCEPT !.deal_size = <<Some(250000), Some(450000)>>])}

InitScore ==
    /\ review = DealReview(0)
    /\ clock = 0
    /\ lastCall = NoCall
    /\ queue = {}
    /\ threads = [t \in Threads |-> IdleThread]
    /\ listing \in ScoreListingInputs
    /\ mandate \in ScoreMandateInputs
    /\ result = NoEvaluation

\* score_listing(listing, mandate, weights)
ScoreListing ==
    \E weights \in WeightOverrides :
        /\ result = NoEvaluation
        /\ result' = [op |-> "score_listing", weights |-> weights,
                      value |-> score_listing(listing, mandate, weights)]
        /\ UNCHANGED <<listing, mandate>>
        /\ UNCHANGED reviewVars

\* the conviction of a listing for a mandate: assess_conviction on its score
ConvictionOf(l, m, scoring_result) ==
    IF IsRaised(scoring_result) THEN scoring_result ELSE assess_conviction(l, m, scoring_result)

\* assess_conviction(listing, mandate, score_listing(listing, mandate))
AssessConviction ==
    /\ result = NoEvaluation
    /\ result' = [op |-> "assess_conviction",
                  scoring_result |-> score_listing(listing, mandate, None),
                  value |-> ConvictionOf(listing, mandate, score_listing(listing, mandate, None))]
    /\ UNCHANGED <<listing, mandate>>
    /\ UNCHANGED reviewVars

NextScore ==
    \/ ScoreListing
    \/ AssessConviction

SpecScore == InitScore /\ [][NextScore]_vars

(***************************************************************************)
(* Claims about scoring (SpecScore)                                        *)
(***************************************************************************)
Scored == result.op = "score_listing"

\* 0 < min_deal_size <= max_deal_size
OrderedDealSize(m) ==
    /\ m.financial.min_deal_size # None /\ m.financial.max_deal_size # None
    /\ 0 < Val(m.financial.min_deal_size)
    /\ Val(m.financial.min_deal_size) <= Val(m.financial.max_deal_size)

InUnit(x) == RGe(x, Float(0)) /\ RLe(x, Float(1))

\* a ScoringResult with a total in [0,100] and ten sub-scores in [0,1]
ScoreInRange(r) ==
    /\ ~IsRaised(r)
    /\ RGe(r.total_score, Float(0)) /\ RLe(r.total_score, Float(100))
    /\ Len(r.factors) = 10
    /\ \A i \in DOMAIN r.factors : InUnit(r.factors[i].score)

\* C12: for a mandate with 0 < min_deal_size <= max_deal_size (and
\* non-negative weights) score_listing returns a ScoringResult whose
\* total_score is in [0,100] and whose ten factor sub-scores are in [0,1]
C12_ScoreInRange == (Scored /\ OrderedDealSize(mandate)) => ScoreInRange(result.value)

\* the names of the ten factors, in the order score_listing collects them
FactorNames ==
    <<"region_match", "postcode_match", "price_range", "price_psf", "yield_minimum",
      "yield_target", "property_size", "property_condition", "property_tenure", "risk_profile">>

\* 100 * (sum of weighted sub-scores) / (sum of weights), 0 without weight
ScoreFromFactors(factors) ==
    IF RGt(RSum([i \in DOMAIN factors |-> factors[i].weight]), Float(0))
    THEN RMul(RDiv(RSum([i \in DOMAIN factors |-> RMul(factors[i].score, factors[i].weight)]),
                   RSum([i \in DOMAIN factors |-> factors[i].weight])), Float(100))
    ELSE Float(0)

MandateAccepts(l, m) ==
    /\ accepts_asset_class(m, l.asset_class)
    /\ accepts_location(m, l.address.region, postcode_area(l.address))

\* C13: the returned passes_hard_filters is false exactly when the mandate does
\* not accept the listing's asset class or its location; then total_score is
\* 0.3 times the score of the ten returned factors and at most 30, and all
\* ten factors are returned
C13_HardFilterPenalty ==
    (Scored /\ ~IsRaised(result.value)) =>
        /\ result.value.passes_hard_filters <=> MandateAccepts(listing, mandate)
        /\ [i \in DOMAIN result.value.factors |-> result.value.factors[i].name] = FactorNames
        /\ result.value.passes_hard_filters =>
               result.value.total_score = ScoreFromFactors(result.value.factors)
        /\ ~result.value.passes_hard_filters =>
               /\ result.value.total_score =
                      RMul(ScoreFromFactors(result.value.factors), Rat(3, 10))
               /\ RLe(result.value.total_score, Float(30))

\* a listing in an excluded location only, scored above 25 after the penalty
C13_Witness ==
    /\ Scored /\ ~IsRaised(result.value)
    /\ ~result.value.passes_hard_filters
    /\ accepts_asset_class(mandate, listing.asset_class)
    /\ RGt(result.value.total_score, Float(25))

Assessed == result.op = "assess_conviction" /\ ~IsRaised(result.value)

\* NONE < LOW < MEDIUM < HIGH
LevelRank(level) ==
    CASE level = "none" -> 0 [] level = "low" -> 1 [] level = "medium" -> 2 [] level = "high" -> 3

\* the listings an assessed listing is compared with, from weak to strong matches
ConvictionPeers ==
    {Listing(c) : c \in {BaseListing,
                         [BaseListing EXCEPT !.asking_price = 300000],
                         [BaseListing EXCEPT !.asking_price = 8500000,
                                             !.gross_yield = Some(Float(0)),
                                             !.tenure = <<"leasehold", Some(70)>>,
                                             !.condition = "development"],
                         [BaseListing EXCEPT !.asking_price = 500000, !.gross_yield = Some(Float(3))],
                         [BaseListing EXCEPT !.gross_yield = Some(Float(0))],
                         [BaseListing EXCEPT !.gross_yield = Some(Rat(5, 2)),
                                             !.condition = "development"],
                         [BaseListing EXCEPT !.tenure = <<"leasehold", Some(70)>>,
                                             !.asking_price = 6000000],
                         [BaseListing EXCEPT !.address = [region |-> "Wales", postcode |-> <<>>],
                                             !.gross_yield = None],
                         [BaseListing EXCEPT !.asset_class = "commercial"]}}

\* the assessment of a peer under the same mandate
PeerConviction(l) == ConvictionOf(l, mandate, score_listing(l, mandate, None))

\* levels ordered as the confidences of two assessments that passed the hard filters
OrderedLevels(a, b) ==
    RLe(a.confidence_score, b.confidence_score) => LevelRank(a.level) <= LevelRank(b.level)

OrderedBothWays(a, b) == OrderedLevels(a, b) /\ OrderedLevels(b, a)

Passes(scoring_result) == ~IsRaised(scoring_result) /\ scoring_result.passes_hard_filters

PeerPasses(l) == Passes(score_listing(l, mandate, None))

\* an assessment against the assessment of a peer with the given score
PeerOrdered(a, l, scoring_result) ==
    Passes(scoring_result) => OrderedBothWays(a, assess_conviction(l, mandate, scoring_result))

\* C14: under one mandate, of two listings that pass the hard filters the one
\* with the higher final confidence never has the lower conviction level
\* (NONE < LOW < MEDIUM < HIGH), whatever the thresholds; a listing that
\* fails the hard filters has level NONE
C14_LevelMonotone ==
    Assessed =>
        /\ ~result.scoring_result.passes_hard_filters => result.value.level = "none"
        /\ result.scoring_result.passes_hard_filters =>
               \A l \in ConvictionPeers :
                   PeerOrdered(result.value, l, score_listing(l, mandate, None))

\* a listing assessed MEDIUM below a peer assessed HIGH and above a peer assessed lower
C14_Witness ==
    /\ Assessed
    /\ result.scoring_result.passes_hard_filters
    /\ result.value.level = "medium"
    /\ \E l \in ConvictionPeers :
           /\ PeerPasses(l) /\ PeerConviction(l).level = "high"
           /\ RLt(result.value.confidence_score, PeerConviction(l).confidence_score)
    /\ \E l \in ConvictionPeers :
           /\ PeerPasses(l) /\ PeerConviction(l).level \in {"low", "none"}
           /\ RLt(PeerConviction(l).confidence_score, result.value.confidence_score)

\* the weight name each of the ten factors is weighted by, in factor order
FactorWeightNames ==
    <<"location_region", "location_postcode", "price_range", "price_psf", "yield_minimum",
      "yield_target", "property_size", "property_condition", "property_tenure", "risk_profile">>

\* explicit override > the mandate's own weights > the defaults, name by name
WeightByPrecedence(k, weights, m) ==
    IF weights # None /\ k \in DOMAIN Val(weights) THEN Val(weights)[k]
    ELSE IF k \in DOMAIN m.scoring_weights THEN m.scoring_weights[k]
    ELSE DEFAULT_WEIGHTS[k]

\* C15: each of the ten factors is weighted by the explicit override's value
\* for its weight name if the override supplies that name, otherwise by the
\* mandate's own scoring_weights value, and by the built-in default only when
\* neither supplies it
C15_WeightPrecedence ==
    (Scored /\ ~IsRaised(result.value)) =>
        \A i \in DOMAIN result.value.factors :
            result.value.factors[i].weight =
                WeightByPrecedence(FactorWeightNames[i], result.weights, mandate)

\* min_deal_size < max_deal_size and the asking price within [min, max]
PriceWithinRange(l, m) ==
    /\ m.financial.min_deal_size # None /\ m.financial.max_deal_size # None
    /\ 0 < Val(m.financial.min_deal_size)
    /\ Val(m.financial.min_deal_size) < Val(m.financial.max_deal_size)
    /\ Val(m.financial.min_deal_size) <= l.financial.asking_price
    /\ l.financial.asking_price <= Val(m.financial.max_deal_size)

\* 1.0 at the midpoint of [min, max], falling linearly to 1.0 - edge_penalty at both ends
LinearFromMidpoint(price, min_size, max_size, edge_penalty) ==
    RSub(Float(1), RMul(edge_penalty, RAbs(Rat(2 * price - (min_size + max_size),
                                               max_size - min_size))))

\* the price_range sub-score of a result
PriceRangeScore(r) == r.factors[3].score

MaxCopies == 3

\* listed_building with listed_grade: unlisted, each grade, a grade in lower
\* case, listed without a grade, and a grade left on an unlisted building
ListedChoices ==
    {<<FALSE, <<>>>>, <<TRUE, <<"I">>>>, <<TRUE, <<"i">>>>, <<TRUE, <<"I", "I", "*">>>>,
     <<TRUE, <<"I", "I">>>>, <<TRUE, <<>>>>, <<FALSE, <<"I">>>>}

\* plot_size_sqft with current_sqft: unknown, zero, compact, medium and large
\* plots under buildings of low, middling and high coverage
PlotChoices ==
    {<<None, None>>, <<None, Some(500)>>, <<Some(0), Some(500)>>, <<Some(800), None>>,
     <<Some(800), Some(500)>>, <<Some(2000), Some(500)>>, <<Some(2000), Some(1000)>>,
     <<Some(6000), None>>, <<Some(6000), Some(0)>>}

FeasibilityChoice ==
    [property_type : {HOUSE_TERRACED, <<"H", "o", "u", "s", "e">>, <<"F", "l", "a", "t">>, BUNGALOW},
     tenure : {FREEHOLD, <<"L", "e", "a", "s", "e", "h", "o", "l", "d">>, <<>>},
     listed : ListedChoices,
     conservation_area : BOOLEAN,
     article_4_direction : BOOLEAN,
     green_belt : BOOLEAN,
     flood_zone : {1, 2, 3},
     tree_preservation_orders : BOOLEAN,
     proposed_type : {"extension_rear", "extension_side", "new_build", "subdivision",
                      "change_of_use"},
     plot : PlotChoices]

FeasibilityContext(c) ==
    [property_type |-> Some(c.property_type), tenure |-> Some(c.tenure),
     current_sqft |-> c.plot[2], plot_size_sqft |-> c.plot[1],
     conservation_area |-> c.conservation_area,
     listed_building |-> c.listed[1], listed_grade |-> c.listed[2],
     article_4_direction |-> c.article_4_direction, green_belt |-> c.green_belt,
     flood_zone |-> c.flood_zone, tree_preservation_orders |-> c.tree_preservation_orders,
     nearby_precedents |-> <<>>, proposed_type |-> c.proposed_type]

\* the precedents a context is built from: approvals and refusals of the
\* proposed and of another type, decided today, recently, long ago or at an
\* unknown date, on the site, near, far or at an unknown distance, and three
\* that are not relevant (low similarity, older than 10 years, beyond 1 km)
PrecedentPool ==
    <<PlanningPrecedent("extension_rear", TRUE, Some(487), Some(Float(50)), Rat(8, 10)),
      PlanningPrecedent("extension_rear", TRUE, Some(0), Some(Float(0)), Rat(8, 10)),
      PlanningPrecedent("extension_rear", TRUE, Some(1095), None, Rat(8, 10)),
      PlanningPrecedent("new_build", TRUE, None, Some(Float(100)), Rat(8, 10)),
      PlanningPrecedent("extension_rear", FALSE, Some(487), Some(Float(50)), Rat(8, 10)),
      PlanningPrecedent("extension_rear", FALSE, Some(0), None, Rat(8, 10)),
      PlanningPrecedent("new_build", FALSE, Some(900), Some(Float(500)), Rat(3, 10)),
      PlanningPrecedent("extension_rear", TRUE, Some(487), Some(Float(50)), Rat(2, 10)),
      PlanningPrecedent("extension_rear", TRUE, Some(4000), Some(Float(50)), Rat(8, 10)),
      PlanningPrecedent("extension_rear", FALSE, Some(487), Some(Float(1500)), Rat(8, 10))>>

\* n copies of a precedent
Copies(p, n) == [i \in 1..n |-> p]

RECURSIVE NearbyPrecedents(_, _)
\* the nearby_precedents list holding counts[i] copies of pool precedent i, from i on
NearbyPrecedents(counts, i) ==
    IF i > Len(PrecedentPool) THEN <<>>
    ELSE Copies(PrecedentPool[i], counts[i]) \o NearbyPrecedents(counts, i + 1)

\* at most MaxCopies copies of at most four different pool precedents
PrecedentCounts ==
    UNION {{[i \in DOMAIN PrecedentPool |-> IF i \in chosen THEN copies[i] ELSE 0] :
               copies \in [chosen -> 1..MaxCopies]} :
           chosen \in {some \in SUBSET DOMAIN PrecedentPool : Cardinality(some) <= 4}}

PrecedentContext(counts, proposed_type) ==
    PlanningContext(Some(HOUSE_TERRACED), Some(FREEHOLD), FALSE, <<>>, FALSE, proposed_type,
                    NearbyPrecedents(counts, 1))

ComponentScores == {0, 6, 20, 45, 50, 70, 80, 90, 100}

UpliftMids == {Float(0), Float(5), Rat(81, 10), Float(10), Float(15), Float(25), Float(30), Float(45)}

InitPlan ==
    /\ review = DealReview(0)
    /\ clock = 0
    /\ lastCall = NoCall
    /\ queue = {}
    /\ threads = [t \in Threads |-> IdleThread]
    /\ listing = NoEvaluation
    /\ mandate = NoEvaluation
    /\ result = NoEvaluation

\* assess_feasibility(context)
AssessFeasibility ==
    /\ result = NoEvaluation
    /\ \E c \in FeasibilityChoice :
        /\ result' = [op |-> "assess_feasibility", context |-> FeasibilityContext(c),
                      value |-> assess_feasibility(FeasibilityContext(c))]
        /\ UNCHANGED <<listing, mandate>>
        /\ UNCHANGED reviewVars

\* calculate_precedent_score(context)
CalculatePrecedentScore ==
    /\ result = NoEvaluation
    /\ \E counts \in PrecedentCounts, proposed_type \in {"extension_rear", "new_build"} :
        /\ result' = [op |-> "calculate_precedent_score",
                      context |-> PrecedentContext(counts, proposed_type),
                      value |-> calculate_precedent_score(PrecedentContext(counts, proposed_type))]
        /\ UNCHANGED <<listing, mandate>>
        /\ UNCHANGED reviewVars

\* calculate_planning_score(precedent_score, feasibility_score, uplift_percent_mid)
CalculatePlanningScore ==
    /\ result = NoEvaluation
    /\ \E precedent_score \in ComponentScores, feasibility_score \in ComponentScores,
       uplift_percent_mid \in UpliftMids :
        /\ result' = [op |-> "calculate_planning_score", precedent_score |-> precedent_score,
                      feasibility_score |-> feasibility_score,
                      uplift_percent_mid |-> uplift_percent_mid,
                      value |-> calculate_planning_score(precedent_score, feasibility_score,
                                                         uplift_percent_mid)]
        /\ UNCHANGED <<listing, mandate>>
        /\ UNCHANGED reviewVars

NextPlan ==
    \/ AssessFeasibility
    \/ CalculatePrecedentScore
    \/ CalculatePlanningScore

SpecPlan == InitPlan /\ [][NextPlan]_vars

(***************************************************************************)
(* Claims about the planning components (SpecPlan)                         *)
(***************************************************************************)
FeasibilityAssessed == result.op = "assess_feasibility" /\ ~IsRaised(result.value)

\* a listed building of grade I, the grade read in any case
GradeOneListed(context) ==
    context.listed_building /\ context.listed_grade \in {<<"I">>, <<"i">>}

\* a green belt site with a proposal to build anew, rebuild or subdivide
GreenBeltNewBuilding(context) ==
    /\ context.green_belt
    /\ context.proposed_type \in {"new_build", "demolition_rebuild", "subdivision"}

\* C16: assess_feasibility returns a score in [0,100]; it reports a blocker
\* exactly when the building is Grade I listed or the site is green belt with a
\* new-build, demolition-rebuild or subdivision proposal; with a blocker the
\* score is at most 20, so a Grade I building scores at most 30
C16_BlockersCapScore ==
    FeasibilityAssessed =>
        /\ result.value.score \in 0..100
        /\ (result.value.blockers # <<>>) <=>
               (GradeOneListed(result.context) \/ GreenBeltNewBuilding(result.context))
        /\ result.value.blockers # <<>> => result.value.score <= 20
        /\ GradeOneListed(result.context) => result.value.score <= 30

\* a green belt new build on an otherwise favourable site: unlisted, freehold,
\* flood zone 1, a large plot, and the score held at 20 by the blocker
C16_Witness ==
    /\ FeasibilityAssessed
    /\ result.value.blockers # <<>>
    /\ ~result.context.listed_building
    /\ ~result.context.conservation_area
    /\ result.context.flood_zone = 1
    /\ result.context.plot_size_sqft = Some(6000)
    /\ result.value.score = 20

\* not listed, not in a conservation area or green belt, flood zone 1, no
\* Article 4 direction, no tree preservation order
Unconstrained(context) ==
    /\ ~context.listed_building /\ ~context.conservation_area /\ ~context.green_belt
    /\ context.flood_zone = 1
    /\ ~context.article_4_direction /\ ~context.tree_preservation_orders

FreeholdHouseRearExtension(context) ==
    /\ Contains(lower(Val(context.property_type)), HOUSE)
    /\ lower(Val(context.tenure)) = FREEHOLD
    /\ context.proposed_type = "extension_rear"

\* C17: an unconstrained freehold house with a rear-extension proposal gets a
\* feasibility score of at least 60 and no blockers, whatever the plot size
\* and building area, known or unknown
C17_UnconstrainedHouseScores ==
    (/\ FeasibilityAssessed
     /\ Unconstrained(result.context)
     /\ FreeholdHouseRearExtension(result.context)) =>
        /\ result.value.score >= 60
        /\ result.value.blockers = <<>>

\* such a house on a compact plot that its building covers by more than 60%
C17_Witness ==
    /\ FeasibilityAssessed
    /\ Unconstrained(result.context)
    /\ FreeholdHouseRearExtension(result.context)
    /\ result.context.plot_size_sqft = Some(800)
    /\ result.context.current_sqft = Some(500)
    /\ result.value.score = 86
    /\ result.value.blockers = <<>>

PlanningScored == result.op = "calculate_planning_score"

\* 0.35 * precedentScore + 0.40 * feasibilityScore + 0.25 * min(100, upliftMid / 30 * 100)
WeightedPlanningValue(precedent_score, feasibility_score, uplift_percent_mid) ==
    RAdd(RAdd(RMul(Float(precedent_score), Rat(35, 100)),
              RMul(Float(feasibility_score), Rat(40, 100))),
         RMul(RMin(Float(100), RMul(RDiv(uplift_percent_mid, Float(30)), Float(100))),
              Rat(25, 100)))

\* exceptional at 80 or more, strong at 60 or more, medium at 40 or more, else low
LabelOf(score) ==
    IF score >= 80 THEN "exceptional" ELSE IF score >= 60 THEN "strong"
    ELSE IF score >= 40 THEN "medium" ELSE "low"

\* C18: calculate_planning_score returns 0.35 * precedentScore + 0.40 *
\* feasibilityScore + 0.25 * min(100, upliftMid / 30 * 100) rounded to the
\* nearest integer, a value in [0,100], labelled exceptional at 80 or more,
\* strong at 60 or more, medium at 40 or more and low otherwise
C18_RoundedWeightedScore ==
    PlanningScored =>
        /\ result.value.score = Fmt0(WeightedPlanningValue(result.precedent_score,
                                                           result.feasibility_score,
                                                           result.uplift_percent_mid))
        /\ result.value.score \in 0..100
        /\ result.value.label = LabelOf(result.value.score)

PrecedentScored == result.op = "calculate_precedent_score"

\* a decision of known age within the given years, an age of 0 included
DecidedWithin(p, years) ==
    recency_years(p) # None /\ RLe(Val(recency_years(p)), Float(years))

\* a known distance within the given metres, a distance of 0 included
LocatedWithin(p, metres) ==
    p.distance_meters # None /\ RLe(Val(p.distance_meters), Float(metres))

\* how many precedents of a list satisfy a condition
Count(relevant, Test(_)) == Cardinality({i \in DOMAIN relevant : Test(relevant[i])})

\* the precedent score of a list of relevant precedents for a proposed type:
\* 60 x approval rate in whole points, plus 5 per type-matched approval (at
\* most 20), plus 3 per approval within 3 years (at most 15), minus 5 per
\* refusal within 3 years (at most 20), plus 5 per approval within 100 m (at
\* most 10), clamped to [0,100]; 50 for an empty list
PrecedentScoreOf(relevant, proposed_type) ==
    IF relevant = <<>> THEN 50
    ELSE Max(0, Min(100,
             Trunc(Rat(60 * Count(relevant, LAMBDA p : p.approved), Len(relevant)))
             + Min(20, 5 * Count(relevant, LAMBDA p : p.approved /\ p.precedent_type = proposed_type))
             + Min(15, 3 * Count(relevant, LAMBDA p : p.approved /\ DecidedWithin(p, 3)))
             - Min(20, 5 * Count(relevant, LAMBDA p : ~p.approved /\ DecidedWithin(p, 3)))
             + Min(10, 5 * Count(relevant, LAMBDA p : p.approved /\ LocatedWithin(p, 100)))))

\* C19: calculate_precedent_score returns 50 when no precedent is relevant,
\* and otherwise 60 times the approval rate plus the capped bonuses for
\* type-matched approvals, approvals within 3 years and approvals within 100 m
\* minus the capped penalty for refusals within 3 years, clamped to [0,100],
\* where a known age or distance of 0 counts as within the bound
C19_PrecedentScoreFormula ==
    PrecedentScored =>
        result.value =
            PrecedentScoreOf(get_relevant_precedents(result.context, MIN_SIMILARITY_THRESHOLD),
                             result.context.proposed_type)

\* the sub-score of the returned factor called name
SubScore(r, name) == r.factors[CHOOSE i \in DOMAIN r.factors : r.factors[i].name = name].score

RegionExcluded(l, m) == In(l.address.region, m.geographic.exclude_regions)

PostcodeExcluded(l, m) == AnyPrefix(postcode_area(l.address), m.geographic.exclude_postcodes)

\* C21: a listing whose region is in the mandate's exclude_regions gets a
\* region_match sub-score of 0.0, and a listing whose postcode area starts with
\* one of the exclude_postcodes gets a postcode_match sub-score of 0.0,
\* whatever the include lists hold
C21_ExcludedScoresZero ==
    (Scored /\ ~IsRaised(result.value)) =>
        /\ RegionExcluded(listing, mandate) =>
               SubScore(result.value, "region_match") = Float(0)
        /\ PostcodeExcluded(listing, mandate) =>
               SubScore(result.value, "postcode_match") = Float(0)

(***************************************************************************)
(* SpecAssess: one call of get_planning_assessment on a planning context   *)
(* and a current value                                                     *)
(***************************************************************************)
\* contexts with up to nine feasibility constraints and up to two blockers
AssessmentChoice ==
    [property_type : {HOUSE_TERRACED, <<"F", "l", "a", "t">>},
     tenure : {FREEHOLD, <<"L", "e", "a", "s", "e", "h", "o", "l", "d">>},
     listed : {<<FALSE, <<>>>>, <<TRUE, <<"I">>>>, <<TRUE, <<"I", "I">>>>},
     conservation_area : BOOLEAN,
     article_4_direction : BOOLEAN,
     green_belt : BOOLEAN,
     flood_zone : {1, 3},
     tree_preservation_orders : BOOLEAN,
     proposed_type : {"extension_rear", "extension_side", "new_build"},
     plot : {<<None, None>>, <<Some(2000), Some(500)>>, <<Some(800), Some(500)>>}]

\* no precedent, two approvals, two refusals (of a rear extension)
AssessmentPrecedents ==
    {<<>>, Copies(PrecedentPool[1], 2), Copies(PrecedentPool[5], 2)}

AssessmentContext(c, nearby_precedents) ==
    [FeasibilityContext(c) EXCEPT !.nearby_precedents = nearby_precedents]

CurrentValues == {0, 500000}

InitAssess == InitPlan

\* get_planning_assessment(context, current_value)
GetPlanningAssessment ==
    /\ result = NoEvaluation
    /\ \E c \in AssessmentChoice, nearby_precedents \in AssessmentPrecedents,
          current_value \in CurrentValues :
        /\ result' = [op |-> "get_planning_assessment",
                      context |-> AssessmentContext(c, nearby_precedents),
                      current_value |-> current_value,
                      value |-> get_planning_assessment(AssessmentContext(c, nearby_precedents),
                                                        current_value)]
        /\ UNCHANGED <<listing, mandate>>
        /\ UNCHANGED reviewVars

NextAssess == GetPlanningAssessment

SpecAssess == InitAssess /\ [][NextAssess]_vars

(***************************************************************************)
(* Claims about the planning assessment (SpecAssess)                       *)
(***************************************************************************)
PlanningAssessed == result.op = "get_planning_assessment" /\ ~IsRaised(result.value)

\* the blockers assess_feasibility reports for the assessed context
BlockersOf(context) == assess_feasibility(context).blockers

\* the entry of negative_factors that stands for a blocker
BlockerEntry(blocker) == << "BLOCKER: " >> \o blocker

\* every blocker is listed, as a blocker, and blockers come before the rest
BlockersFirst(blockers, negative_factors) ==
    /\ \A i \in DOMAIN blockers : In(BlockerEntry(blockers[i]), negative_factors)
    /\ Cardinality({i \in DOMAIN negative_factors : IsBlockerText(negative_factors[i])})
           = Len(blockers)
    /\ \A i, j \in DOMAIN negative_factors :
           (IsBlockerText(negative_factors[i]) /\ ~IsBlockerText(negative_factors[j])) => i < j

\* C22: a PlanningAssessment has at most 5 positive and at most 5 negative
\* factors, and every feasibility blocker is in negative_factors, marked as a
\* blocker, ahead of every negative factor that is not a blocker
C22_BlockersSurviveCap ==
    PlanningAssessed =>
        /\ Len(result.value.positive_factors) <= 5
        /\ Len(result.value.negative_factors) <= 5
        /\ BlockersFirst(BlockersOf(result.context), result.value.negative_factors)

\* two blockers kept at the head of a list that the cap cut to five
C22_Witness ==
    /\ PlanningAssessed
    /\ Len(BlockersOf(result.context)) = 2
    /\ Len(assess_feasibility(result.context).negative_factors) >= 6
    /\ Len(result.value.negative_factors) = 5
    /\ IsBlockerText(result.value.negative_factors[1])
    /\ IsBlockerText(result.value.negative_factors[2])
    /\ ~IsBlockerText(result.value.negative_factors[3])

(***************************************************************************)
(* SpecQueue: a ReviewQueue and the DealReview objects a caller adds to    *)
(* it, removes from it and moves through the state machine.  Here review   *)
(* holds every DealReview object by identity, and queue is the dict        *)
(* ReviewQueue._reviews in insertion order: a sequence of entries          *)
(* (review_id, the object stored under it).                                *)
(***************************************************************************)
\* the successful transitions of a run
MaxQueueTransitions == 2

\* the DealReview objects: "c" was built with the review_id of "a"
ReviewObjects == {"a", "b", "c"}

review_id(o) == IF o = "b" THEN "REV-2" ELSE "REV-1"

\* the ids a caller asks the queue about; nothing is stored under "REV-9"
ReviewIds == {"REV-1", "REV-2", "REV-9"}

Keys(self) == {self[i].review_id : i \in DOMAIN self}

Range(s) == {s[i] : i \in DOMAIN s}

\* ReviewQueue.add as dict.setdefault: an id already held keeps its object
add_KeepExisting(self, o) ==
    IF review_id(o) \in Keys(self) THEN self
    ELSE Append(self, [review_id |-> review_id(o), review |-> o])

\* ReviewQueue.add: self._reviews[review.review_id] = review; a key already
\* in the dict keeps its position and takes the new object
add(self, o) ==
    IF review_id(o) \in Keys(self)
    THEN [i \in DOMAIN self |->
             IF self[i].review_id = review_id(o) THEN [self[i] EXCEPT !.review = o] ELSE self[i]]
    ELSE Append(self, [review_id |-> review_id(o), review |-> o])

\* ReviewQueue.remove: self._reviews.pop(review_id, None)
remove(self, id) == SelectSeq(self, LAMBDA e : e.review_id # id)

\* ReviewQueue.all: list(self._reviews.values())
all(self) == [i \in DOMAIN self |-> self[i].review]

\* ReviewQueue.by_state, with the objects' fields read from objects
by_state(self, objects, state) == SelectSeq(all(self), LAMBDA o : objects[o].state = state)

pending(self, objects) == SelectSeq(all(self), LAMBDA o : is_pending(objects[o]))

decided(self, objects) == SelectSeq(all(self), LAMBDA o : is_decided(objects[o]))

\* ReviewQueue.stats without avg_priority (the model keeps no priority)
stats(self, objects) ==
    [total |-> Len(all(self)),
     by_state |-> [state \in ReviewState |-> Len(by_state(self, objects, state))],
     pending_count |-> Len(pending(self, objects)),
     decided_count |-> Len(decided(self, objects))]

InitQueue ==
    /\ review = [o \in ReviewObjects |-> DealReview(0)]
    /\ clock = 0
    /\ lastCall = NoCall
    /\ queue = <<>>
    /\ threads = [t \in Threads |-> IdleThread]
    /\ listing = NoEvaluation
    /\ mandate = NoEvaluation
    /\ result = NoEvaluation

\* queue.add(review)
QueueAddReview ==
    \E o \in ReviewObjects :
        /\ queue' = add(queue, o)
        /\ lastCall' = [action |-> "add", review |-> o, review_id |-> review_id(o),
                        replaced |-> review_id(o) \in Keys(queue) /\ o \notin Range(all(queue)),
                        raised |-> NoError]
        /\ UNCHANGED <<review, clock, threads>>
        /\ UNCHANGED evalVars

\* queue.remove(review_id)
QueueRemoveReview ==
    \E id \in ReviewIds :
        /\ queue' = remove(queue, id)
        /\ lastCall' = [action |-> "remove", review |-> "none", review_id |-> id,
                        replaced |-> FALSE, raised |-> NoError]
        /\ UNCHANGED <<review, clock, threads>>
        /\ UNCHANGED evalVars

\* the method of DealReview that performs the action
Method(self, action, actor, reasons, notes, now) ==
    CASE action = "start_review" -> start_review(self, actor, notes, now)
      [] action = "accept"       -> accept(self, actor, notes, now)
      [] action = "decline"      -> decline(self, actor, reasons, notes, now)
      [] action = "reset"        -> reset(self, actor, notes, now)

\* the outcome r of a method called on object o, in or out of the queue
QueueTransitionOutcome(o, action, r, now) ==
    /\ (r.raised = NoError) => clock < MaxQueueTransitions
    /\ review' = [review EXCEPT ![o] = r.self]
    /\ clock' = IF r.raised = NoError THEN now ELSE clock
    /\ lastCall' = [action |-> action, review |-> o, review_id |-> review_id(o),
                    replaced |-> FALSE, raised |-> r.raised]
    /\ UNCHANGED <<queue, threads>>
    /\ UNCHANGED evalVars

\* review.start_review(...), .accept(...), .decline(...) or .reset(...)
QueueTransition ==
    \E o \in ReviewObjects, action \in ReviewAction, now \in Now :
        QueueTransitionOutcome(o, action,
            Method(review[o], action, "alice", <<"too expensive">>, "note", now), now)

NextQueue ==
    \/ QueueAddReview
    \/ QueueRemoveReview
    \/ QueueTransition

SpecQueue == InitQueue /\ [][NextQueue]_vars

(***************************************************************************)
(* Claims about the review queue (SpecQueue)                               *)
(***************************************************************************)
\* what a queue holds: the pairs (review_id, object)
Holds(self) == {<<self[i].review_id, self[i].review>> : i \in DOMAIN self}

\* the queue's membership after a call, from its membership before
MembershipAfter(held, call) ==
    CASE call.action = "add" ->
             {e \in held : e[1] # call.review_id} \cup {<<call.review_id, call.review>>}
      [] call.action = "remove" -> {e \in held : e[1] # call.review_id}
      [] OTHER -> held

\* one entry per review_id, each object under its own id
OnePerId(self) ==
    /\ \A i, j \in DOMAIN self : self[i].review_id = self[j].review_id => i = j
    /\ \A i \in DOMAIN self : review_id(self[i].review) = self[i].review_id

RECURSIVE Sum(_, _)
\* the sum of f over the set S
Sum(f, S) == IF S = {} THEN 0 ELSE LET x == CHOOSE y \in S : TRUE IN f[x] + Sum(f, S \ {x})

\* pending() and decided() share no review and together hold those of all()
Partition(self, objects) ==
    /\ Range(pending(self, objects)) \cap Range(decided(self, objects)) = {}
    /\ Range(pending(self, objects)) \cup Range(decided(self, objects)) = Range(all(self))
    /\ Len(pending(self, objects)) + Len(decided(self, objects)) = Len(all(self))

StatsAgree(s) ==
    /\ s.total = s.pending_count + s.decided_count
    /\ s.total = Sum(s.by_state, ReviewState)

\* C23: each add puts the review under its review_id in place of any earlier
\* entry, each remove takes the entry of the id away, a transition leaves the
\* membership alone; the queue holds one review per review_id; pending() and
\* decided() partition all(); stats() reports total = pending_count +
\* decided_count = the sum of the by_state counts
C23_QueueMembership ==
    [][ /\ Holds(queue') = MembershipAfter(Holds(queue), lastCall')
        /\ OnePerId(queue')
        /\ Partition(queue', review')
        /\ StatsAgree(stats(queue', review'))
        /\ stats(queue', review').total = Cardinality(Holds(queue')) ]_vars

\* a re-add replaced the review held under REV-1 while the queue held a
\* decided and a pending review
C23_Witness ==
    /\ lastCall.action = "add" /\ lastCall.replaced
    /\ Len(queue) = 2
    /\ Len(pending(queue, review)) = 1
    /\ Len(decided(queue, review)) = 1

(***************************************************************************)
(* Claims about the review's derived values (Spec)                         *)
(***************************************************************************)
RECURSIVE LastTimestamps(_, _, _, _)
\* the loop of time_in_review from record i on: review_start is overwritten by
\* each START_REVIEW record and review_end by each ACCEPT or DECLINE record
LastTimestamps(history, i, review_start, review_end) ==
    IF i > Len(history) THEN <<review_start, review_end>>
    ELSE IF history[i].action = "start_review"
    THEN LastTimestamps(history, i + 1, Some(history[i].timestamp), review_end)
    ELSE IF history[i].action \in {"accept", "decline"}
    THEN LastTimestamps(history, i + 1, review_start, Some(history[i].timestamp))
    ELSE LastTimestamps(history, i + 1, review_start, review_end)

\* DealReview.time_in_review: hours between the two timestamps (a timestamp
\* counts seconds), or None
time_in_review(self) ==
    LET found == LastTimestamps(self.history, 1, None, None)
    IN IF self.history = <<>> THEN None
       ELSE IF found[1] # None /\ found[2] # None
       THEN Some(Rat(Val(found[2]) - Val(found[1]), 3600))
       ELSE None

\* hours from a START_REVIEW record to an ACCEPT or DECLINE record after it
ReviewSpans(history) ==
    {Rat(history[p[2]].timestamp - history[p[1]].timestamp, 3600) :
        p \in {q \in (DOMAIN history) \X (DOMAIN history) :
                  /\ q[1] < q[2]
                  /\ history[q[1]].action = "start_review"
                  /\ history[q[2]].action \in {"accept", "decline"}}}

\* C24: time_in_review is None or the non-negative elapsed time between a
\* START_REVIEW record and the ACCEPT or DECLINE record that follows it
C24_TimeInReviewNonNegative ==
    \/ time_in_review(review) = None
    \/ /\ RGe(Val(time_in_review(review)), Float(0))
       /\ Val(time_in_review(review)) \in ReviewSpans(review.history)

\* the records of a history chain from NEW to state through rows of the table
ValidWalk(history, state) ==
    /\ history = <<>> => state = "new"
    /\ history # <<>> =>
           /\ history[1].from_state = "new"
           /\ history[Len(history)].to_state = state
    /\ \A i \in DOMAIN history :
           /\ <<history[i].from_state, history[i].action, history[i].to_state>> \in TransitionTable
           /\ i > 1 => history[i].from_state = history[i - 1].to_state

\* every ACCEPT or DECLINE record comes right after a START_REVIEW record
DecisionsFollowStart(history) ==
    \A i \in DOMAIN history :
        history[i].action \in {"accept", "decline"} =>
            i > 1 /\ history[i - 1].action = "start_review"

\* C25: the history of a review changed only through start_review, accept,
\* decline and reset is a valid walk of the transition table from NEW to the
\* review's current state, so every ACCEPT or DECLINE record is immediately
\* preceded by a START_REVIEW record
C25_HistoryIsValidWalk ==
    /\ ValidWalk(review.history, review.state)
    /\ DecisionsFollowStart(review.history)

\* a second round of review: started, declined, reset and started again
C25_Witness ==
    /\ Len(review.history) = 4
    /\ [i \in 1..4 |-> review.history[i].action]
           = <<"start_review", "decline", "reset", "start_review">>
    /\ review.state = "reviewing"
    /\ lastCall.action = "start_review" /\ lastCall.raised = NoError

(***************************************************************************)
(* Claims about the recommendation and the stages before it (SpecEval)     *)
(***************************************************************************)
\* a generate_recommendation call, returned or raised
Called == result.op = "generate_recommendation"

\* C26: when the mandate does not accept the listing's asset class or its
\* location, generate_recommendation returns a recommendation with
\* conviction NONE and action PASS, whether or not the rejection rules
\* report a HARD reason
C26_UnacceptedIsPassed ==
    (Called /\ ~MandateAccepts(listing, mandate)) =>
        /\ ~IsRaised(result.value)
        /\ result.value.conviction.level = "none"
        /\ result.value.action = "pass"

(***************************************************************************)
(* Claims about the hard filters and the stages after them (SpecFilter)    *)
(***************************************************************************)
\* a filter_listing call that ran the full default chain and passed the listing
PassedDefaultChain ==
    /\ result.op = "filter_listing"
    /\ result.filters \in {None, Some(<<>>)}
    /\ result.value.passed

\* score_listing and evaluate_rejection treat the listing as qualified
QualifiedLater(l, m) ==
    /\ ~IsRaised(score_listing(l, m, None))
    /\ score_listing(l, m, None).passes_hard_filters
    /\ ~HasHard(evaluate_rejection(l, m, None, FALSE).reasons)

\* C27: a listing that passes the full default filter chain for a mandate
\* gets passes_hard_filters = true from score_listing and no HARD reason
\* from evaluate_rejection
C27_FilteredListingsQualify ==
    PassedDefaultChain => QualifiedLater(listing, mandate)

(***************************************************************************)
(* SpecBatch: one call of generate_recommendations on two listings and a   *)
(* mandate, with planning contexts for none, one or both of the listings   *)
(***************************************************************************)
\* the second listing of the batch: the base listing, as it is or in need of
\* development
PeerListings ==
    {[Listing(c) EXCEPT !.listing_id = "L2"] :
        c \in {BaseListing, [BaseListing EXCEPT !.condition = "development"]}}

\* a context whose planning score reaches the boost
BoostingContext ==
    PlanningContext(Some(HOUSE_TERRACED), Some(FREEHOLD), FALSE, <<>>, FALSE,
                    "extension_rear", <<RearExtensionApproved, RearExtensionApproved>>)

\* the planning_contexts argument: absent, or a dict from listing_id to context
PlanningContextDicts ==
    {None} \cup {Some([id \in ids |-> BoostingContext]) : ids \in SUBSET {"L1", "L2"}}

\* planning_contexts.get(listing_id) when planning_contexts is truthy
ContextFor(planning_contexts, listing_id) ==
    IF planning_contexts = None \/ DOMAIN Val(planning_contexts) = {} THEN None
    ELSE IF listing_id \in DOMAIN Val(planning_contexts)
    THEN Some(Val(planning_contexts)[listing_id])
    ELSE None

RECURSIVE InsertByPriority(_, _)
\* list.sort is stable: rec goes after the entries that do not rank after it
InsertByPriority(sorted, rec) ==
    IF sorted = <<>> THEN <<rec>>
    ELSE IF Head(sorted).priority_rank <= rec.priority_rank
    THEN <<Head(sorted)>> \o InsertByPriority(Tail(sorted), rec)
    ELSE <<rec>> \o sorted

RECURSIVE SortByPriority(_, _)
SortByPriority(recommendations, sorted) ==
    IF recommendations = <<>> THEN sorted
    ELSE SortByPriority(Tail(recommendations), InsertByPriority(sorted, Head(recommendations)))

\* the sorted list of recommendations, or the first exception of the loop
SortedOrRaised(recommendations) ==
    IF \E i \in DOMAIN recommendations : IsRaised(recommendations[i])
    THEN recommendations[CHOOSE i \in DOMAIN recommendations :
             /\ IsRaised(recommendations[i])
             /\ \A j \in 1..(i - 1) : ~IsRaised(recommendations[j])]
    ELSE [recommendations |-> SortByPriority(recommendations, <<>>)]

generate_recommendations(listings, m, planning_contexts) ==
    SortedOrRaised([i \in DOMAIN listings |->
        generate_recommendation(listings[i], m,
                                ContextFor(planning_contexts, listings[i].listing_id))])

InitBatch ==
    /\ review = DealReview(0)
    /\ clock = 0
    /\ lastCall = NoCall
    /\ queue = {}
    /\ threads = [t \in Threads |-> IdleThread]
    /\ listing \in Listings
    /\ mandate \in Mandates
    /\ result = NoEvaluation

\* generate_recommendations([listing, peer], mandate, planning_contexts)
GenerateRecommendations ==
    /\ result = NoEvaluation
    /\ \E peer \in PeerListings, planning_contexts \in PlanningContextDicts :
        /\ result' = [op |-> "generate_recommendations", listings |-> <<listing, peer>>,
                      planning_contexts |-> planning_contexts,
                      value |-> generate_recommendations(<<listing, peer>>, mandate,
                                                         planning_contexts)]
        /\ UNCHANGED <<listing, mandate>>
        /\ UNCHANGED reviewVars

NextBatch == GenerateRecommendations

SpecBatch == InitBatch /\ [][NextBatch]_vars

(***************************************************************************)
(* Claims about the batch of recommendations (SpecBatch)                   *)
(***************************************************************************)
Batched == result.op = "generate_recommendations" /\ ~IsRaised(result.value)

\* the more urgent action ranks strictly first and is listed first
ActionFirst(recommendations) ==
    \A i, j \in DOMAIN recommendations :
        ActionRank(recommendations[i].action) < ActionRank(recommendations[j].action) =>
            /\ recommendations[i].priority_rank < recommendations[j].priority_rank
            /\ i < j

\* C28: of two recommendations of the same mandate the one with the more
\* urgent action (PURSUE, CONSIDER, WATCH, PASS) has the strictly smaller
\* priority_rank and comes earlier in the list generate_recommendations
\* returns, with or without planning boosts
C28_ActionOrdersRank == Batched => ActionFirst(result.value.recommendations)

(***************************************************************************)
(* Claims about the action at other conviction levels (SpecEval)          *)
(***************************************************************************)
\* PASS < WATCH < CONSIDER < PURSUE
Favour(action) == 5 - ActionRank(action)

\* the conviction levels below level (NONE < LOW < MEDIUM < HIGH)
LevelsBelow(level) == {lv \in {"none", "low", "medium"} : LevelRank(lv) < LevelRank(level)}

\* the action of the same score, rejection and mandate at another conviction level
ActionAtLevel(r, m, level) ==
    _determine_action(r.scoring, [r.conviction EXCEPT !.level = level], r.rejection, m)

Unrejected == Called /\ ~IsRaised(result.value) /\ ~result.value.rejection.rejected

\* HIGH conviction that reaches neither the pursue nor the consider threshold
HighBelowThresholds(r, m) ==
    /\ r.conviction.level = "high"
    /\ RLt(r.scoring.total_score, m.deal_criteria.pursue_score_threshold)
    /\ RLt(r.scoring.total_score, m.deal_criteria.consider_score_threshold)

\* C29 as stated: without a HARD rejection no lower conviction level would
\* give the same score under the same thresholds a more favourable action
C29_ConvictionMonotone ==
    Unrejected =>
        \A lv \in LevelsBelow(result.value.conviction.level) :
            Favour(ActionAtLevel(result.value, mandate, lv)) <= Favour(result.value.action)

\* C29, amended: without a HARD rejection a lower conviction level gives a
\* more favourable action only to a HIGH-conviction listing whose score is
\* below both the pursue and the consider threshold, which is given PASS
C29_ConvictionMonotoneAboveConsider ==
    Unrejected =>
        IF HighBelowThresholds(result.value, mandate)
        THEN result.value.action = "pass"
        ELSE \A lv \in LevelsBelow(result.value.conviction.level) :
                Favour(ActionAtLevel(result.value, mandate, lv)) <= Favour(result.value.action)

\* HIGH conviction with a score between the consider and the pursue threshold,
\* where LOW conviction would be given WATCH
C29_Witness ==
    /\ Unrejected
    /\ result.value.conviction.level = "high"
    /\ result.value.action = "consider"
    /\ ActionAtLevel(result.value, mandate, "low") = "watch"


(***************************************************************************)
(* SpecLocation: one call of a location rule on a listing address and a    *)
(* mandate's geographic criteria                                           *)
(***************************************************************************)
LocationAddresses ==
    {[region |-> "London", postcode |-> SW1A_1AA],
     [region |-> "London", postcode |-> <<"s", "w", "1", "a", " ", "1", "a", "a">>],
     [region |-> "Wales", postcode |-> SW1A_1AA],
     [region |-> "Wales", postcode |-> <<"C", "F", "1", "0", " ", "1", "A", "A">>],
     [region |-> "Wales", postcode |-> <<>>],
     [region |-> "Scotland", postcode |-> <<"E", "H", "1", " ", "1", "A", "A">>]}

\* include and exclude lists, each empty or populated
LocationGeographies ==
    {GeographicCriteria(regions, postcodes, exclude_regions, exclude_postcodes) :
        regions \in {<<>>, <<"London">>, <<"London", "Kent">>},
        postcodes \in {<<>>, << <<"s", "w", "1">> >>, << <<"E", "C">>, <<"s", "w", "1">> >>},
        exclude_regions \in {<<>>, <<"Scotland">>},
        exclude_postcodes \in {<<>>, << <<"E", "H">> >>}}

InitLocation ==
    /\ review = DealReview(0)
    /\ clock = 0
    /\ lastCall = NoCall
    /\ queue = {}
    /\ threads = [t \in Threads |-> IdleThread]
    /\ listing \in {Listing([BaseListing EXCEPT !.address = a]) : a \in LocationAddresses}
    /\ mandate \in {Mandate([BaseMandate EXCEPT !.geographic = g]) : g \in LocationGeographies}
    /\ result = NoEvaluation

\* filter_by_location(listing, mandate)
FilterByLocation ==
    /\ result = NoEvaluation
    /\ result' = [op |-> "filter_by_location", value |-> filter_by_location(listing, mandate)[1]]
    /\ UNCHANGED <<listing, mandate>>
    /\ UNCHANGED reviewVars

\* mandate.accepts_location(listing.region, listing.postcode_area)
AcceptsLocation ==
    /\ result = NoEvaluation
    /\ result' = [op |-> "accepts_location",
                  value |-> accepts_location(mandate, listing.address.region,
                                             postcode_area(listing.address))]
    /\ UNCHANGED <<listing, mandate>>
    /\ UNCHANGED reviewVars

\* check_location_outside_target(listing, mandate): the rule reports no reason
CheckLocationOutsideTarget ==
    /\ result = NoEvaluation
    /\ result' = [op |-> "check_location_outside_target",
                  value |-> check_location_outside_target(listing, mandate) = None]
    /\ UNCHANGED <<listing, mandate>>
    /\ UNCHANGED reviewVars

NextLocation == FilterByLocation \/ AcceptsLocation \/ CheckLocationOutsideTarget

SpecLocation == InitLocation /\ [][NextLocation]_vars

(***************************************************************************)
(* Claims about the location rule (SpecLocation)                           *)
(***************************************************************************)
LocationRuleApplied == result.op \in {"filter_by_location", "accepts_location"}

NamesTarget(geo) == geo.regions # <<>> \/ geo.postcodes # <<>>

LocationExcluded(l, geo) ==
    \/ In(l.address.region, geo.exclude_regions)
    \/ AnyPrefix(upper(postcode_area(l.address)), geo.exclude_postcodes)

\* the region is a named region or the postcode area starts with a named prefix
MatchesNamedTarget(l, geo) ==
    \/ In(l.address.region, geo.regions)
    \/ AnyPrefix(upper(postcode_area(l.address)), geo.postcodes)

\* C30: when the mandate names an include region or an include postcode
\* prefix, a listing that is not excluded passes filter_by_location, and is
\* accepted by accepts_location, exactly when its region is a named region or
\* its postcode area starts with a named prefix, also when only one of the
\* two include lists is populated
C30_IncludeListsDecide ==
    (/\ LocationRuleApplied
     /\ NamesTarget(mandate.geographic)
     /\ ~LocationExcluded(listing, mandate.geographic)) =>
        (result.value <=> MatchesNamedTarget(listing, mandate.geographic))

====
